---- MODULE Spec2Model ----
(***************************************************************************)
(* A model of the core of the zraft consensus library: the per-node Raft   *)
(* state machine (recv.c, recv_request_vote.c, recv_request_vote_result.c, *)
(* replication.c, progress.c, client.c).  Every node is a record `raft[n]` *)
(* whose fields carry the names of the fields of `struct raft`; a handler  *)
(* of the C code is an operator from a node record (and its input) to the  *)
(* new node record and the set of messages it hands to io->send.           *)
(***************************************************************************)
EXTENDS Integers, Sequences, FiniteSets, TLC

\* ------------------------------------------------------------------ bounds

\* Number of servers of the cluster (ids 1..NServers, all of them voters).
NServers == 3
\* Election timeouts that may fire in one behaviour.
MaxTimeouts == 2
\* The servers 1..NCandidates are those whose election timer may expire.
NCandidates == 2
\* I/O requests (set_meta, append) that may complete with an error.
MaxFaults == 1
\* Entries a client may have a leader append while the log is shorter.
MaxLog == 2

Server == 1..NServers

\* Error codes (raft.h); only their being distinct and non-zero matters.
RAFT_IOERR == 1
RAFT_SHUTDOWN == 2
RAFT_LOG_BUSY == 3
RAFT_APPLY_BUSY == 4
RAFT_NOTLEADER == 5
RAFT_NOMEM == 6
RAFT_BADROLE == 7
RAFT_BADID == 8
RAFT_NOTFOUND == 9
RAFT_DUPLICATEID == 10
RAFT_CANTCHANGE == 11
RAFT_MALFORMED == 12

\* ------------------------------------------------------------------ helpers

min(a, b) == IF a < b THEN a ELSE b
max(a, b) == IF a < b THEN b ELSE a

\* A request slot that holds no request.
NoReq == [cb |-> "none"]
\* The value of a message pointer that is NULL.
NoMsg == [type |-> "none"]

\* ------------------------------------------------------------------ state

VARIABLES
    raft,       \* raft[n]: the struct raft of node n
    msgs,       \* every message handed to io->send so far (the network may
                \* deliver any of them, any number of times, in any order)
    timeouts,   \* timers (election or heartbeat) expired so far
    faults,     \* I/O errors injected so far
    fixture     \* a configuration object on its own, with the buffer it is
                \* encoded to and decoded from (test_configuration.c)

vars == <<raft, msgs, timeouts, faults, fixture>>

\* ------------------------------------------------------------------ configuration

\* A server of a configuration: its role, and the role and the groups that
\* encode a joint configuration.  The servers array is kept as a function over
\* all ids; the role "NONE" marks an id that the configuration does not hold.
Member(role) == [role |-> role, role_new |-> role, group |-> {"OLD", "NEW"}]

\* The configuration in which server i has role roles[i].
Configuration(roles) ==
    [servers |-> [i \in Server |-> Member(roles[i])], phase |-> "NORMAL"]

\* The configuration field of a log entry that is not a CHANGE entry.
NoConf == Configuration([i \in Server |-> "NONE"])

\* configurationGet: whether the configuration holds a server with this id.
configurationGet(c, id) == id \in Server /\ c.servers[id].role # "NONE"

\* configurationVoterCount: the number of servers whose role is VOTER.
configurationVoterCount(c) ==
    Cardinality({i \in Server : c.servers[i].role = "VOTER"})

\* configurationIsVoter: whether server id votes in one of the groups: by its
\* role in the old group, by its new role in the new one.
configurationIsVoter(c, id, groups) ==
    \/ "OLD" \in groups /\ "OLD" \in c.servers[id].group
                         /\ c.servers[id].role = "VOTER"
    \/ "NEW" \in groups /\ "NEW" \in c.servers[id].group
                         /\ c.servers[id].role_new = "VOTER"

\* raft_configuration_add: a server that the configuration does not hold yet.
raft_configuration_add(c, id, role) ==
    IF configurationGet(c, id) THEN [c |-> c, rv |-> RAFT_DUPLICATEID]
    ELSE [c |-> [c EXCEPT !.servers[id] = Member(role)], rv |-> 0]

\* configurationRemove
configurationRemove(c, id) ==
    IF ~configurationGet(c, id) THEN [c |-> c, rv |-> RAFT_BADID]
    ELSE [c |-> [c EXCEPT !.servers[id] = Member("NONE")], rv |-> 0]

\* configurationJointRemove: enter the joint phase; the server to remove
\* belongs to the old group only.
configurationJointRemove(c, remove) ==
    [c EXCEPT !.phase = "JOINT", !.servers[remove].group = {"OLD"}]

\* configurationJointReset: back to the normal phase with the old roles.
configurationJointReset(c) ==
    [servers |-> [i \in Server |-> Member(c.servers[i].role)], phase |-> "NORMAL"]

\* configurationJointToNormal: the normal configuration made of one group of
\* a joint one.
configurationJointToNormal(c, group) ==
    [servers |-> [i \in Server |->
                     IF group \notin c.servers[i].group THEN Member("NONE")
                     ELSE IF group = "NEW" THEN Member(c.servers[i].role_new)
                     ELSE Member(c.servers[i].role)],
     phase |-> "NORMAL"]

\* ------------------------------------------------------------------ configuration.c, servers array

\* Role, group and phase codes and the numbers of the wire format.
RAFT_STANDBY == 0
RAFT_VOTER == 1
RAFT_SPARE == 2
RAFT_LOGGER == 3
RAFT_GROUP_OLD == 1
RAFT_GROUP_NEW == 2
RAFT_CONF_NORMAL == 0
RAFT_CONF_JOINT == 1
CONF_META_SIZE == 256
CONF_META_VERSION == 1
CONF_SERVER_VERSION == 1
CONF_SERVER_SIZE == 11

\* configurationInit: no server, normal phase.  Here the servers array is a
\* sequence of struct raft_server, as in the code.
configurationInit == [servers |-> <<>>, phase |-> RAFT_CONF_NORMAL]

\* The fixture after setUp: an initialised configuration, no buffer; op is
\* the operation that ran last and rv what it returned.
setUp == [configuration |-> configurationInit, buf |-> <<>>, op |-> "setUp", rv |-> 0]

\* configurationIndexOf: the position of the server with this id, or n (here
\* n + 1, positions being counted from 1) when there is none.
configurationIndexOf(c, id) ==
    LET at == {i \in 1..Len(c.servers) : c.servers[i].id = id}
    IN  IF at = {} THEN Len(c.servers) + 1 ELSE CHOOSE i \in at : \A j \in at : i <= j

\* A variant of configurationAdd that does not look for the id in the array.
configurationAddAny(c, id, role, role_new, group) ==
    LET server == [id |-> id, role |-> role, role_new |-> role_new, group |-> group]
        before == SelectSeq(c.servers, LAMBDA s : s.id < id)
        after == SelectSeq(c.servers, LAMBDA s : ~(s.id < id))
    IN  IF role \notin {RAFT_STANDBY, RAFT_VOTER, RAFT_SPARE, RAFT_LOGGER}
        THEN [c |-> c, rv |-> RAFT_BADROLE]
        ELSE [c |-> [c EXCEPT !.servers = before \o <<server>> \o after], rv |-> 0]

\* configurationAdd: BADROLE for a role that is none of the four, DUPLICATEID
\* for an id the array holds; otherwise the server is inserted at its place
\* in the order of the ids (configurationDecode/two_servers reads the ids 5, 3
\* and finds 3 at index 0 and 5 at index 1).
configurationAdd(c, id, role, role_new, group) ==
    LET server == [id |-> id, role |-> role, role_new |-> role_new, group |-> group]
        before == SelectSeq(c.servers, LAMBDA s : s.id < id)
        after == SelectSeq(c.servers, LAMBDA s : ~(s.id < id))
    IN  IF role \notin {RAFT_STANDBY, RAFT_VOTER, RAFT_SPARE, RAFT_LOGGER}
        THEN [c |-> c, rv |-> RAFT_BADROLE]
        ELSE IF configurationIndexOf(c, id) <= Len(c.servers)
        THEN [c |-> c, rv |-> RAFT_DUPLICATEID]
        ELSE [c |-> [c EXCEPT !.servers = before \o <<server>> \o after], rv |-> 0]

\* REMOVE_RV, the configurationRemove of the servers array: BADID for an id
\* the array does not hold; otherwise the servers after it move up by one.
REMOVE_RV(c, id) ==
    IF configurationIndexOf(c, id) > Len(c.servers) THEN [c |-> c, rv |-> RAFT_BADID]
    ELSE [c |-> [c EXCEPT !.servers = SelectSeq(c.servers, LAMBDA s : s.id # id)],
          rv |-> 0]

\* ------------------------------------------------------------------ configuration.c, encoding

\* bytePad64: the next multiple of 8.
bytePad64(len) == ((len + 7) \div 8) * 8

\* bytePut8 / bytePut32 / bytePut64: the `size` bytes of a value, the least
\* significant first.
RECURSIVE bytePut(_, _)
bytePut(value, size) ==
    IF size = 0 THEN <<>> ELSE <<value % 256>> \o bytePut(value \div 256, size - 1)

\* byteGet8 / byteGet32 / byteGet64Unaligned: the value of the `size` bytes
\* that begin at position `cursor` of the buffer.
RECURSIVE byteGet(_, _, _)
byteGet(buf, cursor, size) ==
    IF size = 0 THEN 0 ELSE buf[cursor] + 256 * byteGet(buf, cursor + 1, size - 1)

\* A variant of configurationEncode that writes the role of a server in the
\* place of its new role.
configurationEncodeRoleTwice(c) ==
    LET n == Len(c.servers)
        RECURSIVE tail(_)
        tail(i) == IF i > n THEN <<>>
                   ELSE bytePut(c.servers[i].id, 8) \o bytePut(c.servers[i].role, 1)
                        \o tail(i + 1)
        RECURSIVE servers(_)
        servers(i) == IF i > n THEN <<>>
                      ELSE bytePut(c.servers[i].id, 8) \o bytePut(c.servers[i].role, 1)
                           \o bytePut(c.servers[i].role, 1)
                           \o bytePut(c.servers[i].group, 1) \o servers(i + 1)
        meta == bytePut(CONF_META_VERSION, 4) \o bytePut(CONF_SERVER_VERSION, 4)
                \o bytePut(CONF_SERVER_SIZE, 4) \o bytePut(c.phase, 1)
                \o [k \in 1..(CONF_META_SIZE - 13) |-> 0]
        bytes == bytePut(1, 1) \o bytePut(n, 8) \o tail(1) \o meta \o servers(1)
    IN  bytes \o [k \in 1..(bytePad64(Len(bytes)) - Len(bytes)) |-> 0]

\* configurationEncode: the version, the number of servers, the id and role
\* of each server (the form of version 1), the meta block with the phase,
\* then id, role, new role and group of each server, and zeros up to a
\* multiple of 8 bytes.
configurationEncode(c) ==
    LET n == Len(c.servers)
        RECURSIVE tail(_)
        tail(i) == IF i > n THEN <<>>
                   ELSE bytePut(c.servers[i].id, 8) \o bytePut(c.servers[i].role, 1)
                        \o tail(i + 1)
        RECURSIVE servers(_)
        servers(i) == IF i > n THEN <<>>
                      ELSE bytePut(c.servers[i].id, 8) \o bytePut(c.servers[i].role, 1)
                           \o bytePut(c.servers[i].role_new, 1)
                           \o bytePut(c.servers[i].group, 1) \o servers(i + 1)
        meta == bytePut(CONF_META_VERSION, 4) \o bytePut(CONF_SERVER_VERSION, 4)
                \o bytePut(CONF_SERVER_SIZE, 4) \o bytePut(c.phase, 1)
                \o [k \in 1..(CONF_META_SIZE - 13) |-> 0]
        bytes == bytePut(1, 1) \o bytePut(n, 8) \o tail(1) \o meta \o servers(1)
    IN  bytes \o [k \in 1..(bytePad64(Len(bytes)) - Len(bytes)) |-> 0]

\* A variant of configurationDecode that takes the short form only when the
\* buffer ends with the last (id, role) pair.
configurationDecodeExact(buf) ==
    LET n == byteGet(buf, 2, 8)
        RECURSIVE short(_, _)
        short(i, res) ==
            IF i > n \/ res.rv # 0 THEN res
            ELSE short(i + 1,
                       configurationAdd(res.c, byteGet(buf, 10 + 9 * (i - 1), 8),
                                        byteGet(buf, 18 + 9 * (i - 1), 1),
                                        byteGet(buf, 18 + 9 * (i - 1), 1),
                                        RAFT_GROUP_OLD))
        meta == 10 + 9 * n
        size == byteGet(buf, meta + 8, 4)
        RECURSIVE long(_, _)
        long(i, res) ==
            IF i > n \/ res.rv # 0 THEN res
            ELSE LET at == meta + CONF_META_SIZE + size * (i - 1)
                 IN  long(i + 1,
                          configurationAdd(res.c, byteGet(buf, at, 8),
                                           byteGet(buf, at + 8, 1),
                                           byteGet(buf, at + 9, 1),
                                           byteGet(buf, at + 10, 1)))
    IN  IF byteGet(buf, 1, 1) # 1 THEN [c |-> configurationInit, rv |-> RAFT_MALFORMED]
        ELSE IF Len(buf) = meta - 1
        THEN short(1, [c |-> configurationInit, rv |-> 0])
        ELSE IF Len(buf) - (meta - 1) < CONF_META_SIZE
        THEN [c |-> configurationInit, rv |-> RAFT_MALFORMED]
        ELSE long(1, [c |-> [configurationInit EXCEPT
                                !.phase = byteGet(buf, meta + 12, 1)],
                      rv |-> 0])

\* configurationDecode into an initialised configuration: MALFORMED unless
\* the version is 1.  A buffer that ends with the (id, role) pairs, or with
\* less than a meta block after them, is the short form: every server gets
\* its role as new role and the group OLD, the phase is NORMAL.  Otherwise
\* the phase is read from the meta block and the servers from the records
\* that follow it.  The servers are added with configurationAdd.
configurationDecode(buf) ==
    LET n == byteGet(buf, 2, 8)
        RECURSIVE short(_, _)
        short(i, res) ==
            IF i > n \/ res.rv # 0 THEN res
            ELSE short(i + 1,
                       configurationAdd(res.c, byteGet(buf, 10 + 9 * (i - 1), 8),
                                        byteGet(buf, 18 + 9 * (i - 1), 1),
                                        byteGet(buf, 18 + 9 * (i - 1), 1),
                                        RAFT_GROUP_OLD))
        meta == 10 + 9 * n
        size == byteGet(buf, meta + 8, 4)
        RECURSIVE long(_, _)
        long(i, res) ==
            IF i > n \/ res.rv # 0 THEN res
            ELSE LET at == meta + CONF_META_SIZE + size * (i - 1)
                 IN  long(i + 1,
                          configurationAdd(res.c, byteGet(buf, at, 8),
                                           byteGet(buf, at + 8, 1),
                                           byteGet(buf, at + 9, 1),
                                           byteGet(buf, at + 10, 1)))
    IN  IF byteGet(buf, 1, 1) # 1 THEN [c |-> configurationInit, rv |-> RAFT_MALFORMED]
        ELSE IF Len(buf) - (meta - 1) < CONF_META_SIZE
        THEN short(1, [c |-> configurationInit, rv |-> 0])
        ELSE long(1, [c |-> [configurationInit EXCEPT
                                !.phase = byteGet(buf, meta + 12, 1)],
                      rv |-> 0])

\* ------------------------------------------------------------------ log

\* logLastIndex: offset + number of entries.
logLastIndex(r) == r.offset + Len(r.log)

\* logTermOf: the term of the entry at `index`, the snapshot's term at the
\* snapshot's last index, 0 when the log holds nothing for that index.
logTermOf(r, index) ==
    IF index > r.offset /\ index <= r.offset + Len(r.log)
    THEN r.log[index - r.offset].term
    ELSE IF index = r.snap_index /\ index > 0 THEN r.snap_term
    ELSE 0

\* logLastTerm: the term of the last entry (0 for an empty log).
logLastTerm(r) ==
    IF logLastIndex(r) = 0 THEN 0 ELSE logTermOf(r, logLastIndex(r))

\* ------------------------------------------------------------------ conversions

\* convertToFollower: leave the candidate / leader role, forget the leader.
convertToFollower(r) ==
    [r EXCEPT !.state = "FOLLOWER",
              !.current_leader = 0,
              !.in_pre_vote = FALSE,
              !.votes = {},
              !.change = FALSE,
              !.promotee_id = 0,
              !.round_number = 0,
              !.round_index = 0,
              !.transfer = 0,
              !.transfer_sent = FALSE,
              !.reg = <<>>,
              !.breq = 0]

\* convertToUnavailable: the terminal state.
convertToUnavailable(r) ==
    [r EXCEPT !.state = "UNAVAILABLE"]

\* ------------------------------------------------------------------ election

\* The servers that vote in the configuration of node r.
Voters(r) == {i \in Server : configurationIsVoter(r.configuration, i, {"OLD", "NEW"})}

\* electionVote: whether the vote asked for by `args` is granted.
\*   (V2) a real vote is refused when this node already voted for another
\*        candidate in the term of the request;
\*   (V3) the candidate's log must be at least as up-to-date as the local one.
electionVote(r, args) ==
    /\ ~(/\ ~args.pre_vote
         /\ args.term = r.current_term
         /\ r.voted_for # 0
         /\ r.voted_for # args.candidate_id)
    /\ \/ logLastIndex(r) = 0
       \/ args.last_log_term > logLastTerm(r)
       \/ /\ args.last_log_term = logLastTerm(r)
          /\ args.last_log_index >= logLastIndex(r)

\* electionTally: record the vote of `voter`; TRUE when the votes form a
\* majority of the voters.
electionTallyVotes(r, voter) == r.votes \cup {voter}
electionTally(r, voter) ==
    Cardinality(electionTallyVotes(r, voter)) > Cardinality(Voters(r)) \div 2

\* The RequestVote messages of one election round of node r.
electionSend(r, term, pre_vote) ==
    { [type |-> "RequestVote", src |-> r.id, dst |-> d, term |-> term,
       candidate_id |-> r.id,
       last_log_index |-> logLastIndex(r), last_log_term |-> logLastTerm(r),
       pre_vote |-> pre_vote, disrupt_leader |-> r.disrupt_leader]
      : d \in Voters(r) \ {r.id} }

\* electionStart: in the pre-vote phase probe with current_term + 1 and persist
\* nothing; otherwise increment the term, persist (term, vote = self), and ask
\* every other voter for its vote.  rv is the status of the metadata write.
electionStart(r, rv) ==
    IF r.in_pre_vote
    THEN [r |-> [r EXCEPT !.votes = {r.id}],
          out |-> electionSend(r, r.current_term + 1, TRUE), rv |-> 0]
    ELSE IF rv # 0
    THEN [r |-> r, out |-> {}, rv |-> rv]
    ELSE LET r1 == [r EXCEPT !.current_term = r.current_term + 1,
                             !.voted_for = r.id,
                             !.votes = {r.id}]
         IN  [r |-> r1, out |-> electionSend(r1, r1.current_term, FALSE),
              rv |-> 0]

\* convertToCandidate: become candidate and start a (pre-)vote round.
convertToCandidate(r, disrupt_leader, rv) ==
    electionStart([r EXCEPT !.state = "CANDIDATE",
                            !.current_leader = 0,
                            !.in_pre_vote = r.pre_vote,
                            !.disrupt_leader = disrupt_leader,
                            !.votes = {}], rv)

\* ------------------------------------------------------------------ recv.c

\* recvCheckMatchingTerms: -1, 0 or 1 as `term` is lower than, equal to or
\* higher than current_term.
\* A variant of recvCheckMatchingTerms that reports every different term, a
\* lower one too, as a higher term.
recvCheckMatchingTermsAnyDifference(r, term) ==
    IF term # r.current_term THEN 1 ELSE 0

recvCheckMatchingTerms(r, term) ==
    IF term < r.current_term THEN -1
    ELSE IF term > r.current_term THEN 1
    ELSE 0

\* recvUpdateMeta: submit the metadata write of (term, voted_for) and mark the
\* I/O busy; rv is what io->set_meta returns.
recvUpdateMeta(r, message, term, voted_for, cb, rv) ==
    [r |-> [r EXCEPT !.io_state = "BUSY",
                     !.meta = IF rv = 0
                              THEN [cb |-> cb, term |-> term,
                                    voted_for |-> voted_for,
                                    message |-> message]
                              ELSE NoReq],
     out |-> {}, rv |-> rv]

\* ------------------------------------------------------------------ recv_request_vote.c

\* A variant of recvRequestVote that grants a vote without recording the
\* candidate in voted_for.
recvRequestVoteForgetsVote(r, id, args, rv) ==
    LET has_leader == \/ r.state = "LEADER"
                      \/ r.state = "FOLLOWER" /\ r.current_leader # 0
        match == recvCheckMatchingTerms(r, args.term)
        considered == ~(has_leader /\ ~args.disrupt_leader) /\ match >= 0
        vote_granted == considered /\ electionVote(r, args)
        bumped == considered /\ ~args.pre_vote /\ match > 0
        voted_for == IF bumped THEN 0 ELSE r.voted_for
        message == [type |-> "RequestVoteResult", src |-> r.id, dst |-> id,
                    term |-> IF bumped THEN args.term ELSE r.current_term,
                    vote_granted |-> vote_granted,
                    pre_vote |-> args.pre_vote]
    IN  IF considered /\ ~args.pre_vote /\ (match > 0 \/ r.voted_for # voted_for)
        THEN recvUpdateMeta(r, message, args.term, voted_for,
                            "respondToRequestVote", rv)
        ELSE [r |-> r, out |-> IF rv = 0 THEN {message} ELSE {}, rv |-> rv]

\* A variant of recvRequestVote that handles a pre-vote request as a request
\* for a real vote.
recvRequestVotePersistsPreVote(r, id, args, rv) ==
    LET has_leader == \/ r.state = "LEADER"
                      \/ r.state = "FOLLOWER" /\ r.current_leader # 0
        match == recvCheckMatchingTerms(r, args.term)
        considered == ~(has_leader /\ ~args.disrupt_leader) /\ match >= 0
        vote_granted == considered /\ electionVote(r, args)
        bumped == considered /\ match > 0
        voted_for == IF considered /\ vote_granted
                     THEN args.candidate_id
                     ELSE IF bumped THEN 0 ELSE r.voted_for
        message == [type |-> "RequestVoteResult", src |-> r.id, dst |-> id,
                    term |-> IF bumped THEN args.term ELSE r.current_term,
                    vote_granted |-> vote_granted,
                    pre_vote |-> args.pre_vote]
    IN  IF considered /\ (match > 0 \/ r.voted_for # voted_for)
        THEN recvUpdateMeta(r, message, args.term, voted_for,
                            "respondToRequestVote", rv)
        ELSE [r |-> r, out |-> IF rv = 0 THEN {message} ELSE {}, rv |-> rv]

\* recvRequestVote: answer a RequestVote from server `id`.
recvRequestVote(r, id, args, rv) ==
    LET has_leader == \/ r.state = "LEADER"
                      \/ r.state = "FOLLOWER" /\ r.current_leader # 0
        match == recvCheckMatchingTerms(r, args.term)
        considered == ~(has_leader /\ ~args.disrupt_leader) /\ match >= 0
        vote_granted == considered /\ electionVote(r, args)
        bumped == considered /\ ~args.pre_vote /\ match > 0
        voted_for == IF considered /\ ~args.pre_vote /\ vote_granted
                     THEN args.candidate_id
                     ELSE IF bumped THEN 0 ELSE r.voted_for
        message == [type |-> "RequestVoteResult", src |-> r.id, dst |-> id,
                    term |-> IF bumped THEN args.term ELSE r.current_term,
                    vote_granted |-> vote_granted,
                    pre_vote |-> args.pre_vote]
    IN  IF considered /\ ~args.pre_vote /\ (match > 0 \/ r.voted_for # voted_for)
        THEN recvUpdateMeta(r, message, args.term, voted_for,
                            "respondToRequestVote", rv)
        ELSE [r |-> r, out |-> IF rv = 0 THEN {message} ELSE {}, rv |-> rv]

\* A variant of respondToRequestVote that sends the answer although the write
\* failed.
respondToRequestVoteIgnoresStatus(r, status) ==
    LET request == r.meta
        r0 == [r EXCEPT !.meta = NoReq]
    IN  IF r.state = "UNAVAILABLE" THEN [r |-> r0, out |-> {}]
        ELSE IF status # 0
        THEN [r |-> convertToUnavailable([r0 EXCEPT !.io_state = "AVAILABLE"]),
              out |-> {request.message}]
        ELSE LET r1 == [r0 EXCEPT !.io_state = "AVAILABLE",
                                  !.current_term = request.term,
                                  !.voted_for = request.voted_for]
                 r2 == IF r1.state # "FOLLOWER" THEN convertToFollower(r1)
                       ELSE r1
             IN  [r |-> r2, out |-> {request.message}]

\* respondToRequestVote: completion of the metadata write of a vote.
respondToRequestVote(r, status) ==
    LET request == r.meta
        r0 == [r EXCEPT !.meta = NoReq]
    IN  IF r.state = "UNAVAILABLE" THEN [r |-> r0, out |-> {}]
        ELSE IF status # 0
        THEN [r |-> convertToUnavailable([r0 EXCEPT !.io_state = "AVAILABLE"]),
              out |-> {}]
        ELSE LET r1 == [r0 EXCEPT !.io_state = "AVAILABLE",
                                  !.current_term = request.term,
                                  !.voted_for = request.voted_for]
                 r2 == IF r1.state # "FOLLOWER" THEN convertToFollower(r1)
                       ELSE r1
             IN  [r |-> r2, out |-> {request.message}]

\* ------------------------------------------------------------------ progress.c

\* initProgress: a peer starts in PROBE at last_index + 1; last_send = 0, so
\* a heartbeat is due.
initProgress(last_index) ==
    [next_index |-> last_index + 1, match_index |-> 0, state |-> "PROBE",
     needs_heartbeat |-> TRUE]

\* progressBuildArray: one progress per server; the leader's own slot has
\* match_index = last_stored.
progressBuildArray(r) ==
    [i \in Server |->
        IF i = r.id
        THEN [initProgress(logLastIndex(r)) EXCEPT !.match_index = r.last_stored]
        ELSE initProgress(logLastIndex(r))]

\* convertToLeader: become leader of current_term with a fresh progress array;
\* commit_index is left unchanged.
convertToLeader(r) ==
    [r EXCEPT !.state = "LEADER",
              !.current_leader = 0,
              !.in_pre_vote = FALSE,
              !.votes = {},
              !.progress = progressBuildArray(r),
              !.change = FALSE,
              !.promotee_id = 0,
              !.promotee_role = "NONE",
              !.remove_id = 0,
              !.round_number = 0,
              !.round_index = 0,
              !.removed_from_cluster = FALSE,
              !.readable = FALSE,
              !.breq = 0]

\* progressIsUpToDate
progressIsUpToDate(r, i) == r.progress[i].next_index = logLastIndex(r) + 1

\* progressShouldPipeMore with the subtraction made without the test that
\* precedes it: the difference of two unsigned values wraps (the width is
\* scaled down to 16 bits, the wrapped value staying above every threshold).
progressShouldPipeMoreWrapped(r, i) ==
    LET p == r.progress[i]
        size == (p.next_index - p.match_index - 1) % (2 ^ 16)
    IN  \/ r.inflight_log_threshold = 0
        \/ size < r.inflight_log_threshold

\* progressShouldPipeMore: no cap when inflight_log_threshold is 0, and no
\* subtraction when next_index is not above match_index.
progressShouldPipeMore(r, i) ==
    LET p == r.progress[i]
    IN  \/ r.inflight_log_threshold = 0
        \/ p.next_index <= p.match_index
        \/ p.next_index - p.match_index - 1 < r.inflight_log_threshold

\* progressShouldReplicate; needs_heartbeat stands for
\* now - last_send >= heartbeat_timeout.
progressShouldReplicate(r, i) ==
    LET p == r.progress[i]
    IN  IF p.state = "PROBE" THEN p.needs_heartbeat
        ELSE (~progressIsUpToDate(r, i) /\ progressShouldPipeMore(r, i))
                \/ p.needs_heartbeat

\* progressToProbe (the SNAPSHOT state is never entered: sendSnapshot is unused).
progressToProbe(p) ==
    [p EXCEPT !.next_index = p.match_index + 1, !.state = "PROBE"]

\* A variant of progressMaybeDecrement that, in PROBE, goes back to the
\* rejected index whatever the last index the follower reports.
progressMaybeDecrementToRejected(r, i, rejected, last_index) ==
    LET p == r.progress[i]
    IN  IF p.state = "PIPELINE"
        THEN IF rejected <= p.match_index
             THEN [p |-> IF last_index = 1 THEN initProgress(logLastIndex(r))
                         ELSE p,
                   retry |-> FALSE]
             ELSE [p |-> progressToProbe(
                            [p EXCEPT !.next_index = min(rejected, p.match_index + 1)]),
                   retry |-> TRUE]
        ELSE IF rejected # p.next_index - 1
             THEN [p |-> p, retry |-> FALSE]
             ELSE [p |-> [p EXCEPT !.next_index = rejected],
                   retry |-> TRUE]

\* progressMaybeDecrement: the new progress and whether to retry.
progressMaybeDecrement(r, i, rejected, last_index) ==
    LET p == r.progress[i]
    IN  IF p.state = "PIPELINE"
        THEN IF rejected <= p.match_index
             THEN [p |-> IF last_index = 1 THEN initProgress(logLastIndex(r))
                         ELSE p,
                   retry |-> FALSE]
             ELSE [p |-> progressToProbe(
                            [p EXCEPT !.next_index = min(rejected, p.match_index + 1)]),
                   retry |-> TRUE]
        ELSE IF rejected # p.next_index - 1
             THEN [p |-> p, retry |-> FALSE]
             ELSE [p |-> [p EXCEPT !.next_index = min(rejected, last_index + 1)],
                   retry |-> TRUE]

\* progressMaybeUpdate: the new progress and whether match_index advanced.
progressMaybeUpdate(p, last_index) ==
    [p |-> [p EXCEPT !.match_index = max(p.match_index, last_index),
                     !.next_index = max(p.next_index, last_index + 1)],
     updated |-> p.match_index < last_index]

\* ------------------------------------------------------------------ replication.c, leader

\* logAcquireSection: the entries with index in from..to.
logAcquireSection(r, from, to) ==
    IF from > to \/ from <= r.offset THEN <<>>
    ELSE SubSeq(r.log, from - r.offset, to - r.offset)

\* sendAppendEntries to peer i: every entry after prev_index, the commit index;
\* a peer in PIPELINE has its next_index advanced optimistically.  Outside a
\* catch-up round the message carries no permit; its time stamp (io_tick) is
\* only compared by the receiver of a catch-up message and is left at 0.
sendAppendEntries(r, i, prev_index, prev_term) ==
    LET entries == logAcquireSection(r, prev_index + 1, logLastIndex(r))
        message == [type |-> "AppendEntries", src |-> r.id, dst |-> i,
                    term |-> r.current_term,
                    prev_log_index |-> prev_index, prev_log_term |-> prev_term,
                    entries |-> entries, leader_commit |-> r.commit_index,
                    replicating |-> "NML", permit |-> FALSE, time |-> 0]
        p == r.progress[i]
        p1 == IF p.state = "PIPELINE"
              THEN [p EXCEPT !.next_index = prev_index + 1 + Len(entries)]
              ELSE p
    IN  [r |-> [r EXCEPT !.progress[i] = [p1 EXCEPT !.needs_heartbeat = FALSE]],
         out |-> {message}]

\* replicationProgress: send peer i what it misses, if it is time to.  With
\* every server a VOTER the catch-up hook is never entered; a peer whose
\* previous entry is not in the log any more is handed to assignRole, which
\* sends nothing.
replicationProgress(r, i) ==
    LET next_index == r.progress[i].next_index
        prev_index == next_index - 1
        prev_term == IF prev_index = 0 THEN 0 ELSE logTermOf(r, prev_index)
    IN  IF ~progressShouldReplicate(r, i) THEN [r |-> r, out |-> {}]
        ELSE IF next_index = 1 /\ r.snap_index > 0 THEN [r |-> r, out |-> {}]
        ELSE IF next_index > 1 /\ prev_term = 0 THEN [r |-> r, out |-> {}]
        ELSE sendAppendEntries(r, i, prev_index, prev_term)

\* triggerAll: replicationProgress for every other server of the
\* configuration, in order; a SPARE server is skipped unless it is the one
\* being promoted.
RECURSIVE triggerFrom(_, _)
triggerFrom(ro, i) ==
    IF i > NServers THEN ro
    ELSE IF i = ro.r.id \/ ~configurationGet(ro.r.configuration, i)
    THEN triggerFrom(ro, i + 1)
    ELSE IF /\ ro.r.configuration.servers[i].role = "SPARE"
            /\ i # ro.r.promotee_id
    THEN triggerFrom(ro, i + 1)
    ELSE LET s == replicationProgress(ro.r, i)
         IN  triggerFrom([r |-> s.r, out |-> ro.out \cup s.out], i + 1)

triggerAll(r) == triggerFrom([r |-> r, out |-> {}], 1)

\* replicationHeartbeat
replicationHeartbeat(r) == triggerAll(r)

\* A variant of replicationQuorum that waits for every voter.
replicationQuorumAll(r, index) ==
    IF index <= r.commit_index THEN r
    ELSE IF logTermOf(r, index) = 0 THEN r
    ELSE IF Cardinality({i \in Server :
                            /\ r.configuration.servers[i].role = "VOTER"
                            /\ r.progress[i].match_index >= index})
              >= configurationVoterCount(r.configuration)
    THEN [r EXCEPT !.commit_index = min(index, r.last_stored)]
    ELSE r

\* replicationQuorum: commit `index` when more than half of the servers whose
\* role is VOTER match it.
replicationQuorum(r, index) ==
    IF index <= r.commit_index THEN r
    ELSE IF logTermOf(r, index) = 0 THEN r
    ELSE IF Cardinality({i \in Server :
                            /\ r.configuration.servers[i].role = "VOTER"
                            /\ r.progress[i].match_index >= index})
              > configurationVoterCount(r.configuration) \div 2
    THEN [r EXCEPT !.commit_index = min(index, r.last_stored)]
    ELSE r

\* ------------------------------------------------------------------ replication.c, apply

\* logGet: the entry at `index`.
logGet(r, index) == r.log[index - r.offset]

\* logTruncate: drop every entry from `index` on.
logTruncate(r, index) ==
    IF index > logLastIndex(r) \/ index <= r.offset THEN r
    ELSE [r EXCEPT !.log = SubSeq(r.log, 1, index - 1 - r.offset)]

\* logSnapshot: the snapshot anchor moves to last_index; the entries before
\* max(snapshot.last_index + 1, last_index - trailing) are dropped.
logSnapshot(r, last_index, trailing) ==
    LET behind == IF last_index > trailing THEN last_index - trailing ELSE 0
        first == max(r.snap_index + 1, behind)
        offset == max(r.offset, min(first - 1, logLastIndex(r)))
    IN  [r EXCEPT !.log = SubSeq(r.log, offset - r.offset + 1, Len(r.log)),
                  !.offset = offset,
                  !.snap_term = logTermOf(r, last_index),
                  !.snap_index = last_index]

\* isRefs: some entry from `index` on is referenced by an in-flight write or
\* by a catch-up request waiting for its apply batch.
isRefs(r, index) ==
    \/ \E k \in 1..Len(r.appends) :
          r.appends[k].index + Len(r.appends[k].entries) - 1 >= index
    \/ \E k \in 1..Len(r.applies) :
          /\ r.applies[k].extra.cb # "none"
          /\ r.applies[k].extra.index + Len(r.applies[k].extra.entries) - 1 >= index

\* sendAppendEntriesResult: the reply goes to the current leader; it is dropped
\* when the request came from another server.
sendAppendEntriesResult(r, result, src_server) ==
    IF src_server # 0 /\ src_server # r.current_leader THEN {}
    ELSE IF r.current_leader = 0 THEN {}
    ELSE {[type |-> "AppendEntriesResult", src |-> r.id,
           dst |-> r.current_leader, term |-> result.term,
           rejected |-> result.rejected,
           last_log_index |-> result.last_log_index,
           permit |-> result.permit]}

\* replicationApplyFollowerCb: a catch-up request whose apply batch is done is
\* answered with last_applied.
replicationApplyFollowerCb(r, extra) ==
    IF extra.cb = "none" THEN {}
    ELSE sendAppendEntriesResult(r,
            [term |-> r.current_term, rejected |-> 0,
             last_log_index |-> r.last_applied, permit |-> extra.args.permit],
            extra.args.src)

\* applySectionCallbackCheck: a batch whose entries are all applied calls back.
\* With no catch-up target (pgrep_id invalid) replicationApplyLeaderCb releases
\* the permit and calls replicationApply, which finds nothing left to do at
\* that point of the loop.
applySectionCallbackCheck(r, done, permit, extra) ==
    IF done /\ ~permit THEN replicationApplyFollowerCb(r, extra) ELSE {}

\* The queue of requests without the first request of `index`, if there is
\* one.
queueRemove(q, index) ==
    LET found == {k \in 1..Len(q) : q[k].index = index}
        first == CHOOSE k \in found : \A j \in found : k <= j
    IN  IF found = {} THEN q
        ELSE SubSeq(q, 1, first - 1) \o SubSeq(q, first + 1, Len(q))

\* getRequest: a leader takes the request of `index` out of its list of
\* requests, which is the registry that raft_apply and raft_barrier fill (and
\* the caller fires its callback); any other node finds nothing.
getRequest(r, index) ==
    IF r.state = "LEADER" THEN [r EXCEPT !.reg = queueRemove(r.reg, index)]
    ELSE r

\* applyBarrier: fire the callback of the barrier request of `index` with
\* status 0; no_op_cb, the callback of the barrier of an election, sets
\* leader_state.readable.
applyBarrier(r, index) ==
    LET req == r.state = "LEADER" /\ \E k \in 1..Len(r.reg) : r.reg[k].index = index
        r1 == getRequest(r, index)
    IN  IF req /\ r.breq = index
        THEN [r1 EXCEPT !.readable = TRUE, !.breq = 0]
        ELSE r1

\* applyChange: the configuration of the CHANGE entry at `index` is committed.
\* A leader gives up its change request, and steps down when the
\* configuration does not hold it any more.
applyChange(r, index) ==
    LET r1 == [r EXCEPT
                  !.configuration_uncommitted_index =
                      IF r.configuration_uncommitted_index = index THEN 0
                      ELSE r.configuration_uncommitted_index,
                  !.configuration_index = index,
                  !.configuration_committed = logGet(r, index).conf]
        gone == ~configurationGet(r1.configuration, r1.id)
    IN  IF r1.state = "LEADER"
        THEN LET r2 == [r1 EXCEPT !.change = FALSE]
             IN  IF gone THEN [convertToFollower(r2) EXCEPT !.removed = TRUE]
                 ELSE r2
        ELSE [r1 EXCEPT !.removed = r1.removed \/ gone]

\* A variant of applyLoop that applies a BARRIER or CHANGE entry on the spot
\* also while an asynchronous apply is outstanding.
RECURSIVE applyLoopUnblocked(_, _, _, _, _, _)
applyLoopUnblocked(ro, ab, index, to, permit, extra) ==
    IF index > to THEN ro
    ELSE LET r == ro.r
             entry == logGet(r, index)
         IN  IF index <= r.offset \/ index > logLastIndex(r)
             THEN ro   \* logGet returns NULL: the process stops here
             ELSE IF entry.type = "COMMAND"
             THEN applyLoopUnblocked(
                     [ro EXCEPT !.r = [r EXCEPT
                         !.applies = Append(r.applies,
                             [index |-> index, ab |-> ab, fin |-> index = to,
                              permit |-> permit,
                              extra |-> IF index = to THEN extra ELSE NoReq]),
                         !.last_applying = index]],
                     ab, index + 1, to, permit, extra)
             ELSE LET r0 == IF entry.type = "CHANGE" THEN applyChange(r, index)
                            ELSE applyBarrier(r, index)
                      r1 == [r0 EXCEPT !.last_applied = max(index, r0.last_applied)]
                      out1 == applySectionCallbackCheck(r1, index = to, permit, extra)
                  IN  applyLoopUnblocked([r |-> [r1 EXCEPT !.last_applying = index],
                                 out |-> ro.out \cup out1],
                                ab, index + 1, to, permit, extra)

\* The loop of replicationApplyInner over index..to.  COMMAND entries are
\* handed to fsm->apply (asynchronous); BARRIER and CHANGE entries are applied
\* on the spot, unless an asynchronous apply is outstanding, which ends the
\* call and leaves the batch short of its expected count for ever.  A batch
\* is identified by its first index `ab`; `fin` marks the entry whose
\* completion makes applied_num reach expect_num.
RECURSIVE applyLoop(_, _, _, _, _, _)
applyLoop(ro, ab, index, to, permit, extra) ==
    IF index > to THEN ro
    ELSE LET r == ro.r
             entry == logGet(r, index)
         IN  IF index <= r.offset \/ index > logLastIndex(r)
             THEN ro   \* logGet returns NULL: the process stops here
             ELSE IF entry.type = "COMMAND"
             THEN applyLoop(
                     [ro EXCEPT !.r = [r EXCEPT
                         !.applies = Append(r.applies,
                             [index |-> index, ab |-> ab, fin |-> index = to,
                              permit |-> permit,
                              extra |-> IF index = to THEN extra ELSE NoReq]),
                         !.last_applying = index]],
                     ab, index + 1, to, permit, extra)
             ELSE IF r.last_applying > r.last_applied
             THEN \* pgrep_fail
                  [ro EXCEPT !.r = [r EXCEPT !.applies =
                        [k \in 1..Len(r.applies) |->
                            IF r.applies[k].ab = ab
                            THEN [r.applies[k] EXCEPT !.fin = FALSE, !.extra = NoReq]
                            ELSE r.applies[k]]]]
             ELSE LET r0 == IF entry.type = "CHANGE" THEN applyChange(r, index)
                            ELSE applyBarrier(r, index)
                      r1 == [r0 EXCEPT !.last_applied = max(index, r0.last_applied)]
                      out1 == applySectionCallbackCheck(r1, index = to, permit, extra)
                  IN  applyLoop([r |-> [r1 EXCEPT !.last_applying = index],
                                 out |-> ro.out \cup out1],
                                ab, index + 1, to, permit, extra)

\* shouldTakeSnapshot: no snapshot is taken by a node that is UNAVAILABLE,
\* while snapshot.pending.term is set, or below the threshold; the difference
\* last_applied - snapshot.last_index is unsigned, so that it is above every
\* threshold when last_applied is the smaller one.  No server is the target
\* of a catch-up (pgrep_id is invalid).
shouldTakeSnapshot(r) ==
    /\ r.state # "UNAVAILABLE"
    /\ r.snapshot_pending.term = 0
    /\ \/ r.last_applied < r.snap_index
       \/ r.last_applied - r.snap_index >= r.snapshot_threshold

\* takeSnapshot: snapshot.pending describes the state at last_applied,
\* snapshot.put is taken and the snapshot is handed to io->snapshot_put.
\* When io->snapshot_put returns an error (snapshot_fault), pending.term is
\* reset; snapshot.put stays taken.  The assertion that snapshot.put is free
\* is compiled out (NDEBUG).
takeSnapshot(r) ==
    LET r1 == [r EXCEPT !.snapshot_pending =
                            [index |-> r.last_applied,
                             term |-> logTermOf(r, r.last_applied)],
                        !.snapshot_put = TRUE]
    IN  IF r.snapshot_fault
        THEN [r |-> [r1 EXCEPT !.snapshot_pending.term = 0,
                               !.snapshot_fault = FALSE],
              rv |-> RAFT_IOERR]
        ELSE [r |-> [r1 EXCEPT !.snapshot_puts = r.snapshot_puts + 1], rv |-> 0]

\* takeSnapshotCb: io->snapshot_put of a local snapshot is done.  snapshot.put
\* is given back; a snapshot that was written becomes the anchor of the log.
takeSnapshotCb(r, status) ==
    LET r0 == [r EXCEPT !.snapshot_put = FALSE,
                        !.snapshot_puts = r.snapshot_puts - 1]
        r1 == IF status # 0 THEN r0
              ELSE logSnapshot(r0, r.snapshot_pending.index, r.snapshot_trailing)
    IN  [r |-> [r1 EXCEPT !.snapshot_pending.term = 0], out |-> {}]

\* replicationApplyInner: apply the entries in (last_applying, commit_index].
\* A leader applies only when the catch-up hook grants its permit (`grant`).
\* After the loop, when nothing is being applied any more, a snapshot is
\* taken if one is due; rv is the status of takeSnapshot.
replicationApplyInner(r, extra, grant) ==
    LET snapshot(ap) ==
            IF ap.r.last_applying = ap.r.last_applied /\ shouldTakeSnapshot(ap.r)
            THEN [r |-> takeSnapshot(ap.r).r, out |-> ap.out,
                  rv |-> takeSnapshot(ap.r).rv]
            ELSE [r |-> ap.r, out |-> ap.out, rv |-> 0]
    IN  IF r.state = "LEADER" /\ ~grant THEN [r |-> r, out |-> {}, rv |-> 0]
        ELSE IF r.last_applying = r.commit_index \/ r.last_applied = r.commit_index
        THEN [r |-> r, out |-> {}, rv |-> 0]
        ELSE snapshot(applyLoop([r |-> r, out |-> {}], r.last_applying + 1,
                                r.last_applying + 1, r.commit_index,
                                r.state = "LEADER", extra))

\* replicationApply, for the callers that drop its status.
replicationApply(r, grant) ==
    [r |-> replicationApplyInner(r, NoReq, grant).r,
     out |-> replicationApplyInner(r, NoReq, grant).out]

\* applyCommandCb: fsm->apply is done with the oldest outstanding entry.
applyCommandCb(r, grant) ==
    LET request == Head(r.applies)
        r0 == getRequest(r, request.index)
        r1 == [r0 EXCEPT !.applies = Tail(r.applies),
                         !.last_applied = max(request.index, r.last_applied)]
    IN  IF ~request.fin THEN [r |-> r1, out |-> {}]
        ELSE IF request.permit THEN replicationApply(r1, grant)
        ELSE [r |-> r1, out |-> replicationApplyFollowerCb(r1, request.extra)]

\* ------------------------------------------------------------------ replication.c, follower

\* updateLastStored: i is the number of written entries still in the log;
\* last_stored becomes max(first_index + i - 1, last_stored).
RECURSIVE storedPrefix(_, _, _, _)
storedPrefix(r, first_index, entries, i) ==
    IF i >= Len(entries) THEN i
    ELSE IF logTermOf(r, first_index + i) = 0
            \/ logTermOf(r, first_index + i) # entries[i + 1].term
    THEN i
    ELSE storedPrefix(r, first_index, entries, i + 1)

updateLastStored(r, first_index, entries) ==
    LET i == storedPrefix(r, first_index, entries, 0)
    IN  [r |-> [r EXCEPT !.last_stored = max(first_index + i - 1, r.last_stored)],
         i |-> i]

\* A variant of checkLogMatchingProperty that rejects a request whose
\* previous entry is of another term wherever the entry is, committed or not.
checkLogMatchingPropertyNoShutdown(r, args) ==
    LET local_prev_term == logTermOf(r, args.prev_log_index)
    IN  IF args.prev_log_index = 0 THEN 0
        ELSE IF local_prev_term = 0 THEN 1
        ELSE IF local_prev_term # args.prev_log_term THEN 1
        ELSE 0

\* checkLogMatchingProperty: 0 passed, 1 reject, -1 shut down.
checkLogMatchingProperty(r, args) ==
    LET local_prev_term == logTermOf(r, args.prev_log_index)
    IN  IF args.prev_log_index = 0 THEN 0
        ELSE IF local_prev_term = 0 THEN 1
        ELSE IF local_prev_term # args.prev_log_term
        THEN IF args.prev_log_index <= r.commit_index THEN -1 ELSE 1
        ELSE 0

\* The position j at which the loop of deleteConflictingEntries stops: the
\* first entry of the request that the log does not hold with the same term.
RECURSIVE firstNew(_, _, _)
firstNew(r, args, j) ==
    IF j >= Len(args.entries) THEN j
    ELSE IF logTermOf(r, args.prev_log_index + 1 + j) = args.entries[j + 1].term
    THEN firstNew(r, args, j + 1)
    ELSE j

\* membershipRollback: take up the last committed configuration again.
membershipRollback(r) ==
    [r EXCEPT !.configuration = r.configuration_committed,
              !.configuration_uncommitted_index = 0]

\* membershipUncommittedChange: a follower adopts the configuration of a
\* CHANGE entry as soon as the entry is stored.
membershipUncommittedChange(r, index, entry) ==
    [r EXCEPT !.configuration = entry.conf,
              !.configuration_uncommitted_index = index]

\* deleteConflictingEntries: truncate the log from the first conflicting entry;
\* a conflict at or below commit_index shuts the node down.  rv is what
\* io->truncate returns.
deleteConflictingEntries(r, args, rv) ==
    LET j == firstNew(r, args, 0)
        entry_index == args.prev_log_index + 1 + j
        local_term == logTermOf(r, entry_index)
    IN  IF j < Len(args.entries) /\ local_term > 0
        THEN IF entry_index <= r.commit_index
             THEN [r |-> r, i |-> j, rv |-> RAFT_SHUTDOWN]
             ELSE LET r0 == IF r.configuration_uncommitted_index >= entry_index
                            THEN membershipRollback(r) ELSE r
                      r1 == logTruncate(r0, entry_index)
                  IN  IF rv # 0 THEN [r |-> r0, i |-> j, rv |-> rv]
                      ELSE [r |-> IF r1.last_stored >= entry_index
                                  THEN [r1 EXCEPT !.last_stored = entry_index - 1]
                                  ELSE r1,
                            i |-> j, rv |-> 0]
        ELSE [r |-> r, i |-> j, rv |-> 0]

\* try_truncate: unless membershipRollback has assigned it, `rv` is read
\* without having been assigned; `garbage` is the value the read yields.
try_truncate(r, index, garbage) ==
    LET rolled == r.configuration_uncommitted_index >= index
        r0 == IF rolled THEN membershipRollback(r) ELSE r
    IN  IF index > logLastIndex(r0) THEN [r |-> r0, rv |-> 0]
        ELSE IF isRefs(r0, index) THEN [r |-> r0, rv |-> RAFT_LOG_BUSY]
        ELSE IF ~rolled /\ garbage # 0 THEN [r |-> r0, rv |-> garbage]
        ELSE [r |-> logTruncate(r0, index), rv |-> 0]

\* sync_pgrep_index: re-anchor the log and every index at the leader's
\* prev_log_index; snap_rv is the status of pgrep_take_snapshot.
sync_pgrep_index(r, args, snap_rv) ==
    IF snap_rv # 0 THEN [r |-> r, rv |-> snap_rv]
    ELSE [r |-> [r EXCEPT !.snap_index = args.prev_log_index,
                          !.snap_term = args.prev_log_term,
                          !.snapshot_put = TRUE,
                          !.snapshot_puts = r.snapshot_puts + 1,
                          !.snapshot_pending = [index |-> args.prev_log_index,
                                                term |-> args.prev_log_term],
                          !.offset = args.prev_log_index,
                          !.last_stored = args.prev_log_index,
                          !.commit_index = args.prev_log_index,
                          !.last_applied = args.prev_log_index,
                          !.last_applying = args.prev_log_index],
          rv |-> 0]

\* checkPgreplicating for a catch-up message (replicating # NML): drop a stale
\* message; on the first message of a round truncate after the applied prefix
\* and pull last_stored and commit_index back to it; re-anchor the indexes
\* when the leader is ahead of last_stored; skip what is already stored.
checkPgreplicatingRound(r, args, garbage, snap_rv) ==
    LET r0 == IF args.term > r.last_append_term
              THEN [r EXCEPT !.last_append_time = 0] ELSE r
        r1 == [r0 EXCEPT !.last_append_time = args.time,
                         !.last_append_term = r.current_term]
        trunc_index == max(r1.last_applied, r1.last_applying) + 1
        behind == args.prev_log_index > r1.last_stored
        result(rr, rv, async, i) ==
            [r |-> rr, rv |-> rv, async |-> async, discard |-> FALSE, i |-> i]
        begun(bgn) ==
            IF bgn.rv # 0 THEN result(bgn.r, bgn.rv, FALSE, 0)
            ELSE result([bgn.r EXCEPT !.last_stored = trunc_index - 1,
                                      !.commit_index = trunc_index - 1],
                        0, FALSE, 0)
        stored(r2) ==
            result(r2, 0,
                   args.prev_log_index + Len(args.entries) > r2.last_stored,
                   r2.last_stored - args.prev_log_index)
        synced(sy) ==
            IF sy.rv # 0 THEN result(sy.r, sy.rv, FALSE, 0) ELSE stored(sy.r)
        truncated(tr) ==
            IF tr.rv # 0 THEN result(tr.r, tr.rv, FALSE, 0)
            ELSE synced(sync_pgrep_index(tr.r, args, snap_rv))
    IN  IF args.time <= r0.last_append_time
        THEN [r |-> r0, rv |-> 0, async |-> TRUE, discard |-> TRUE, i |-> 0]
        ELSE IF args.replicating = "BGN"
        THEN begun(try_truncate(r1, trunc_index, garbage))
        ELSE IF ~behind THEN stored(r1)
        ELSE IF r1.last_applying # r1.last_applied
        THEN result(r1, RAFT_APPLY_BUSY, FALSE, 0)
        ELSE truncated(try_truncate(r1, r1.offset + 1, garbage))

\* checkPgreplicating
checkPgreplicating(r, args, i, garbage, snap_rv) ==
    IF args.replicating # "NML"
    THEN checkPgreplicatingRound(r, args, garbage, snap_rv)
    ELSE [r |-> [r EXCEPT !.last_append_time = args.time,
                          !.last_append_term = r.current_term],
          rv |-> 0, async |-> TRUE, discard |-> FALSE, i |-> i]

\* The tail of replicationAppend: append the entries from position i on to
\* the in-memory log and submit their write; rv is what io->append returns.
appendFollower(r, args, i, rv) ==
    LET index == args.prev_log_index + 1 + i
        new == SubSeq(args.entries, i + 1, Len(args.entries))
        r1 == [r EXCEPT !.log = r.log \o new]
        request == [cb |-> "appendFollowerCb", index |-> index,
                    entries |-> logAcquireSection(r1, index, logLastIndex(r1)),
                    args |-> [prev_log_index |-> args.prev_log_index,
                              leader_commit |-> args.leader_commit,
                              replicating |-> args.replicating,
                              permit |-> args.permit,
                              src |-> args.src]]
    IN  IF rv # 0
        THEN [r |-> logTruncate(r1, index), out |-> {}, rv |-> rv,
              rejected |-> 0, async |-> TRUE]
        ELSE [r |-> [r1 EXCEPT !.appends = Append(r1.appends, request)],
              out |-> {}, rv |-> 0, rejected |-> 0, async |-> TRUE]

\* replicationAppend: the follower's handling of the entries of an
\* AppendEntries request.  rv is the status of the I/O call the handler makes
\* (io->truncate or io->append).
replicationAppend(r, args, rv, garbage, snap_rv, grant) ==
    LET nml == args.replicating = "NML"
        result(rr, out, status, rejected, async) ==
            [r |-> rr, out |-> out, rv |-> status, rejected |-> rejected,
             async |-> async]
        applied(ap) == result(ap.r, ap.out, ap.rv, 0, FALSE)
        heartbeat(r1) ==
            IF args.leader_commit > r1.commit_index
               \/ args.leader_commit > r1.last_applying
            THEN applied(replicationApplyInner(
                            [r1 EXCEPT !.commit_index =
                                           min(args.leader_commit, r1.last_stored)],
                            NoReq, grant))
            ELSE result(r1, {}, 0, 0, FALSE)
        append(pg) ==
            IF ~pg.async \/ pg.discard
            THEN result(pg.r, {}, pg.rv, 0, pg.async)
            ELSE appendFollower(pg.r, args, pg.i, rv)
        entries(r1, i0) ==
            IF nml /\ Len(args.entries) - i0 = 0 THEN heartbeat(r1)
            ELSE append(checkPgreplicating(r1, args, i0, garbage, snap_rv))
        conflicts(del) ==
            IF del.rv # 0
            THEN result(del.r, {}, del.rv, args.prev_log_index, FALSE)
            ELSE entries(del.r, del.i)
        checked(match) ==
            IF match # 0
            THEN result(r, {}, IF match = 1 THEN 0 ELSE RAFT_SHUTDOWN,
                        args.prev_log_index, FALSE)
            ELSE conflicts(deleteConflictingEntries(r, args, rv))
    IN  IF nml THEN checked(checkLogMatchingProperty(r, args))
        ELSE entries(r, 0)

\* The loop of appendFollowerCb over the first i stored entries: every CHANGE
\* entry among them becomes the uncommitted configuration, the last one last.
RECURSIVE uncommittedChanges(_, _, _, _, _)
uncommittedChanges(r, first_index, entries, i, j) ==
    IF j >= i THEN r
    ELSE uncommittedChanges(
            IF entries[j + 1].type = "CHANGE"
            THEN membershipUncommittedChange(r, first_index + j, entries[j + 1])
            ELSE r,
            first_index, entries, i, j + 1)

\* appendFollowerCb: completion of a follower's write of entries.
appendFollowerCb(r, status, grant) ==
    LET request == Head(r.appends)
        args == request.args
        r0 == [r EXCEPT !.appends = Tail(r.appends)]
        respond(rr, rejected) ==
            sendAppendEntriesResult(rr,
                [term |-> r.current_term, rejected |-> rejected,
                 last_log_index |-> rr.last_stored, permit |-> args.permit],
                args.src)
        answered(ap) == [r |-> ap.r, out |-> ap.out \cup respond(ap.r, 0)]
        commit(r1) ==
            [r1 EXCEPT !.commit_index = min(args.leader_commit, r1.last_stored)]
        stored(r1, i) ==
            IF i = 0 \/ r.state # "FOLLOWER" THEN [r |-> r1, out |-> {}]
            ELSE IF args.leader_commit <= r1.commit_index
            THEN [r |-> r1, out |-> respond(r1, 0)]
            ELSE IF args.replicating # "NML"
            THEN [r |-> replicationApplyInner(commit(r1), request, grant).r,
                  out |-> replicationApplyInner(commit(r1), request, grant).out]
            ELSE answered(replicationApply(commit(r1), grant))
        updated(st) ==
            IF st.i = 0 \/ r.state # "FOLLOWER" THEN [r |-> st.r, out |-> {}]
            ELSE stored(uncommittedChanges(st.r, request.index, request.entries,
                                           st.i, 0), st.i)
    IN  IF status # 0
        THEN IF r.state # "FOLLOWER" THEN [r |-> r0, out |-> {}]
             ELSE [r |-> r0, out |-> respond(r0, args.prev_log_index + 1)]
        ELSE IF r.state = "UNAVAILABLE" THEN [r |-> r0, out |-> {}]
        ELSE updated(updateLastStored(r0, request.index, request.entries))

\* ------------------------------------------------------------------ replication.c, leader writes

\* appendLeader + triggerAll: write every entry from `index` on and send
\* them to the peers; rv is what io->append returns.
replicationTrigger(r, index, rv) ==
    IF rv # 0 THEN [r |-> r, out |-> {}, rv |-> rv]
    ELSE LET request == [cb |-> "appendLeaderCb", index |-> index,
                         entries |-> logAcquireSection(r, index, logLastIndex(r))]
             sent(t) == [r |-> t.r, out |-> t.out, rv |-> 0]
         IN  sent(triggerAll([r EXCEPT !.appends = Append(r.appends, request)]))

\* appendLeaderCb: completion of a leader's write of entries.  A failed write
\* fails the request of its first entry and truncates the log from there.
appendLeaderCb(r, status, grant) ==
    LET request == Head(r.appends)
        r0 == [r EXCEPT !.appends = Tail(r.appends)]
        quorum(r2) == replicationApply(replicationQuorum(r2, r2.last_stored), grant)
        stored(r1) ==
            IF r.state # "LEADER" THEN [r |-> r1, out |-> {}]
            ELSE quorum([r1 EXCEPT !.progress[r.id].match_index = r1.last_stored])
    IN  IF status # 0
        THEN [r |-> logTruncate(getRequest(r0, request.index), request.index),
              out |-> {}]
        ELSE stored(updateLastStored(r0, request.index, request.entries).r)

\* membershipLeadershipTransferStart: send TimeoutNow to the target.
membershipLeadershipTransferStart(r) ==
    [r |-> [r EXCEPT !.transfer_sent = TRUE],
     out |-> {[type |-> "TimeoutNow", src |-> r.id, dst |-> r.transfer,
               term |-> r.current_term,
               last_log_index |-> logLastIndex(r),
               last_log_term |-> logLastTerm(r)]}]

\* A variant of replicationUpdate that moves a peer in PROBE to PIPELINE on
\* every successful reply, whether match_index advanced or not.
replicationUpdateOnAnySuccess(r, i, result, grant) ==
    LET last_index == min(result.last_log_index, logLastIndex(r))
        rejected(dec) ==
            IF dec.retry
            THEN replicationProgress([r EXCEPT !.progress[i] = dec.p], i)
            ELSE [r |-> [r EXCEPT !.progress[i] = dec.p], out |-> {}]
        sent(out, more) == [r |-> more.r, out |-> out \cup more.out]
        more(ap) ==
            IF ap.r.progress[i].state = "PIPELINE"
            THEN sent(ap.out, replicationProgress(ap.r, i))
            ELSE ap
        applied(ap) ==
            IF ap.r.state # "LEADER" \/ ~configurationGet(ap.r.configuration, i)
            THEN ap
            ELSE IF /\ ap.r.transfer = i
                    /\ progressIsUpToDate(ap.r, i)
                    /\ ~ap.r.transfer_sent
            THEN more(sent(ap.out, membershipLeadershipTransferStart(ap.r)))
            ELSE more(ap)
        quorum(r1) ==
            IF ~result.permit THEN applied(replicationApply(r1, grant))
            ELSE applied([r |-> r1, out |-> {}])
        pipeline(p) == IF p.state = "PROBE" THEN [p EXCEPT !.state = "PIPELINE"] ELSE p
        accepted(upd) ==
            IF ~upd.updated
            THEN [r |-> [r EXCEPT !.progress[i] = pipeline(upd.p)], out |-> {}]
            ELSE quorum(replicationQuorum(
                           [r EXCEPT !.progress[i] = pipeline(upd.p)],
                           r.last_stored))
    IN  IF result.rejected > 0
        THEN rejected(progressMaybeDecrement(r, i, result.rejected,
                                             result.last_log_index))
        ELSE accepted(progressMaybeUpdate(r.progress[i], last_index))

\* replicationUpdate: a peer answered an AppendEntries request.  A leader
\* that is handing the leadership over to the peer sends it TimeoutNow once
\* it is up to date.
replicationUpdate(r, i, result, grant) ==
    LET last_index == min(result.last_log_index, logLastIndex(r))
        rejected(dec) ==
            IF dec.retry
            THEN replicationProgress([r EXCEPT !.progress[i] = dec.p], i)
            ELSE [r |-> [r EXCEPT !.progress[i] = dec.p], out |-> {}]
        sent(out, more) == [r |-> more.r, out |-> out \cup more.out]
        more(ap) ==
            IF ap.r.progress[i].state = "PIPELINE"
            THEN sent(ap.out, replicationProgress(ap.r, i))
            ELSE ap
        applied(ap) ==
            IF ap.r.state # "LEADER" \/ ~configurationGet(ap.r.configuration, i)
            THEN ap
            ELSE IF /\ ap.r.transfer = i
                    /\ progressIsUpToDate(ap.r, i)
                    /\ ~ap.r.transfer_sent
            THEN more(sent(ap.out, membershipLeadershipTransferStart(ap.r)))
            ELSE more(ap)
        quorum(r1) ==
            IF ~result.permit THEN applied(replicationApply(r1, grant))
            ELSE applied([r |-> r1, out |-> {}])
        pipeline(p) == IF p.state = "PROBE" THEN [p EXCEPT !.state = "PIPELINE"] ELSE p
        accepted(upd) ==
            IF ~upd.updated
            THEN [r |-> [r EXCEPT !.progress[i] = upd.p], out |-> {}]
            ELSE quorum(replicationQuorum(
                           [r EXCEPT !.progress[i] = pipeline(upd.p)],
                           r.last_stored))
    IN  IF result.rejected > 0
        THEN rejected(progressMaybeDecrement(r, i, result.rejected,
                                             result.last_log_index))
        ELSE accepted(progressMaybeUpdate(r.progress[i], last_index))

\* ------------------------------------------------------------------ client.c

\* The result of a client operation that ends before it sends anything.
Returned(r, rv) == [r |-> r, out |-> {}, rv |-> rv]

\* logDiscard: drop every entry from `index` on.
logDiscard(r, index) == logTruncate(r, index)

\* requestRegEnqueue / requestRegDel
requestRegEnqueue(r, index, type) ==
    [r EXCEPT !.reg = Append(r.reg, [index |-> index, type |-> type])]

requestRegDel(r, index) == [r EXCEPT !.reg = queueRemove(r.reg, index)]

\* raft_apply (one command) and raft_barrier: append an entry of the current
\* term, register the request and replicate the entry.  rv is what io->append
\* returns, nomem the allocation that fails ("log", "reg" or none).  When the
\* registration or the submission of the write fails the entry is discarded
\* again, and the request is taken out of the registry.
clientAppend(r, type, rv, nomem) ==
    LET index == logLastIndex(r) + 1
        r1 == [r EXCEPT !.log = Append(r.log,
                    [term |-> r.current_term, type |-> type, data |-> r.id,
                     conf |-> NoConf])]
        triggered(t) ==
            IF t.rv # 0
            THEN Returned(logDiscard(requestRegDel(t.r, index), index), t.rv)
            ELSE t
    IN  IF \/ r.state # "LEADER" \/ r.transfer # 0
           \/ type = "COMMAND" /\ r.removed_from_cluster
        THEN Returned(r, RAFT_NOTLEADER)
        ELSE IF nomem = "log" THEN Returned(r, RAFT_NOMEM)
        ELSE IF nomem = "reg" THEN Returned(logDiscard(r1, index), RAFT_NOMEM)
        ELSE triggered(replicationTrigger(requestRegEnqueue(r1, index, type), index, rv))

raft_apply(r, rv, nomem) == clientAppend(r, "COMMAND", rv, nomem)

raft_barrier(r, rv, nomem) == clientAppend(r, "BARRIER", rv, nomem)

\* A variant of appendNoOp whose request calls back at once.
appendNoOpReadable(leader, rv) ==
    LET b == raft_barrier(leader, rv, "")
    IN  IF b.rv # 0 THEN b
        ELSE [b EXCEPT !.r.readable = TRUE]

\* What recvRequestVoteResult does for a new leader with no_op: raft_barrier
\* with a request whose callback is no_op_cb.
appendNoOp(leader, rv) ==
    LET b == raft_barrier(leader, rv, "")
    IN  IF b.rv # 0 THEN b
        ELSE [b EXCEPT !.r.breq = logLastIndex(b.r)]

\* membershipCanChangeConfiguration: only a leader that is not transferring
\* its leadership and has no configuration change in flight may change the
\* configuration, and a joint configuration only when the caller allows it.
membershipCanChangeConfiguration(r, allow_joint) ==
    IF r.state # "LEADER" \/ r.transfer # 0 THEN RAFT_NOTLEADER
    ELSE IF r.change \/ r.configuration_uncommitted_index # 0 THEN RAFT_CANTCHANGE
    ELSE IF r.configuration.phase = "JOINT" /\ ~allow_joint THEN RAFT_CANTCHANGE
    ELSE 0

\* progressRebuildArray: keep the progress of the servers that both
\* configurations hold, start afresh for the new ones.
progressRebuildArray(r, configuration) ==
    [i \in Server |->
        IF configurationGet(configuration, i) /\ ~configurationGet(r.configuration, i)
        THEN initProgress(logLastIndex(r))
        ELSE r.progress[i]]

\* clientChangeConfiguration: append a CHANGE entry with `configuration`,
\* rebuild the progress array, make it the configuration of the node (when
\* it is not the node's own object already), and replicate the entry.  nomem is the allocation
\* that fails ("log", "progress" or none), rv what io->append returns.
clientChangeConfiguration(r, configuration, rv, nomem) ==
    LET index == logLastIndex(r) + 1
        r1 == [r EXCEPT !.log = Append(r.log,
                    [term |-> r.current_term, type |-> "CHANGE", data |-> r.id,
                     conf |-> configuration])]
        r2 == [r1 EXCEPT !.progress = progressRebuildArray(r1, configuration),
                         !.configuration = configuration]
        triggered(t) ==
            IF t.rv # 0 THEN Returned(logTruncate(t.r, index), t.rv)
            ELSE [t EXCEPT !.r = [t.r EXCEPT
                     !.configuration_uncommitted_index = index,
                     !.removed_from_cluster =
                         \/ t.r.removed_from_cluster
                         \/ t.r.state = "LEADER"
                            /\ ~configurationGet(t.r.configuration, t.r.id)]]
    IN  IF nomem = "log" THEN Returned(r, RAFT_NOMEM)
        ELSE IF nomem = "progress" THEN Returned(r1, RAFT_NOMEM)
        ELSE triggered(replicationTrigger(r2, index, rv))

\* raft_add: add server id as a SPARE.
raft_add(r, id, rv, nomem) ==
    LET can == membershipCanChangeConfiguration(r, FALSE)
        added == raft_configuration_add(r.configuration, id, "SPARE")
        changed(c) == IF c.rv # 0 THEN c
                      ELSE [c EXCEPT !.r = [c.r EXCEPT !.change = TRUE]]
    IN  IF can # 0 THEN Returned(r, can)
        ELSE IF nomem = "copy" THEN Returned(r, RAFT_NOMEM)
        ELSE IF added.rv # 0 THEN Returned(r, added.rv)
        ELSE changed(clientChangeConfiguration(r, added.c, rv, nomem))

\* raft_dup: append the current configuration once more.
raft_dup(r, rv, nomem) ==
    LET can == membershipCanChangeConfiguration(r, FALSE)
        changed(c) == IF c.rv # 0 THEN c
                      ELSE [c EXCEPT !.r = [c.r EXCEPT !.change = TRUE]]
    IN  IF can # 0 THEN Returned(r, can)
        ELSE IF nomem = "copy" THEN Returned(r, RAFT_NOMEM)
        ELSE changed(clientChangeConfiguration(r, r.configuration, rv, nomem))

\* The catch-up of a server that is to be promoted: the first round begins
\* and an AppendEntries request is sent at once.
catchUp(r, id, role, remove) ==
    LET r1 == [r EXCEPT !.promotee_id = id,
                        !.remove_id = remove,
                        !.promotee_role = role,
                        !.round_number = 1,
                        !.round_index = logLastIndex(r)]
        sent(s) == [r |-> s.r, out |-> s.out, rv |-> 0]
    IN  sent(replicationProgress(r1, id))

\* raft_assign: give server id a role; at once when the role takes no part
\* in the votes or the server has the whole log, after a catch-up otherwise.
raft_assign(r, id, role, rv, nomem) ==
    LET can == membershipCanChangeConfiguration(r, FALSE)
        old_role == r.configuration.servers[id].role
        r1 == [r EXCEPT !.change = TRUE]
        r2 == [r1 EXCEPT !.configuration.servers[id].role = role]
        changed(c) ==
            IF c.rv # 0
            THEN [c EXCEPT !.r = [c.r EXCEPT
                                    !.configuration.servers[id].role = old_role]]
            ELSE c
    IN  IF role \notin {"STANDBY", "VOTER", "SPARE", "LOGGER"}
        THEN Returned(r, RAFT_BADROLE)
        ELSE IF can # 0 THEN Returned(r, can)
        ELSE IF ~configurationGet(r.configuration, id) THEN Returned(r, RAFT_NOTFOUND)
        ELSE IF old_role = role THEN Returned(r, RAFT_BADROLE)
        ELSE IF \/ role \notin {"VOTER", "LOGGER"}
                \/ r.progress[id].match_index = logLastIndex(r)
        THEN changed(clientChangeConfiguration(r2, r2.configuration, rv, nomem))
        ELSE catchUp(r1, id, role, r.remove_id)

\* raft_joint_promote: give server id a voting role while server `remove`
\* leaves, through a joint configuration.
raft_joint_promote(r, id, role, remove, rv, nomem) ==
    LET can == membershipCanChangeConfiguration(r, FALSE)
        r1 == [r EXCEPT !.change = TRUE]
        joint == [configurationJointRemove(r.configuration, remove)
                     EXCEPT !.servers[id].role_new = role]
        r2 == [r1 EXCEPT !.configuration = joint]
        changed(c) ==
            IF c.rv # 0
            THEN [c EXCEPT !.r = [c.r EXCEPT !.configuration =
                                    configurationJointReset(c.r.configuration)]]
            ELSE c
    IN  IF role \notin {"VOTER", "LOGGER"} THEN Returned(r, RAFT_BADROLE)
        ELSE IF ~configurationGet(r.configuration, remove)
        THEN Returned(r, RAFT_NOTFOUND)
        ELSE IF can # 0 THEN Returned(r, can)
        ELSE IF ~configurationGet(r.configuration, id) THEN Returned(r, RAFT_NOTFOUND)
        ELSE IF r.configuration.servers[id].role = role THEN Returned(r, RAFT_BADROLE)
        ELSE IF r.progress[id].match_index = logLastIndex(r)
        THEN changed(clientChangeConfiguration(r2, joint, rv, nomem))
        ELSE catchUp(r1, id, role, remove)

\* copyJointRemoveConfiguration: the normal configuration made of the group
\* that server id is not the newcomer of.
copyJointRemoveConfiguration(r, id) ==
    configurationJointToNormal(r.configuration,
        IF "NEW" \in r.configuration.servers[id].group THEN "OLD" ELSE "NEW")

\* raft_remove: remove server id; in the joint phase, leave the joint
\* configuration.
raft_remove(r, id, rv, nomem) ==
    LET joint == r.configuration.phase = "JOINT"
        can == membershipCanChangeConfiguration(r, joint)
        configuration ==
            IF joint
            THEN configurationRemove(copyJointRemoveConfiguration(r, id), id).c
            ELSE configurationRemove(r.configuration, id).c
        changed(c) == IF c.rv # 0 THEN c
                      ELSE [c EXCEPT !.r = [c.r EXCEPT !.change = TRUE]]
    IN  IF can # 0 THEN Returned(r, can)
        ELSE IF ~configurationGet(r.configuration, id) THEN Returned(r, RAFT_BADID)
        ELSE IF nomem = "copy" THEN Returned(r, RAFT_NOMEM)
        ELSE changed(clientChangeConfiguration(r, configuration, rv, nomem))

\* A variant of clientSelectTransferee that takes the first other voter,
\* up to date or not.
clientSelectTransfereeFirst(r) ==
    LET others == Voters(r) \ {r.id}
    IN  IF others = {} THEN 0
        ELSE CHOOSE i \in others : \A j \in others : i <= j

\* clientSelectTransferee: the first other voter that is up to date, the last
\* other voter when none is; 0 when there is no other voter.
clientSelectTransferee(r) ==
    LET others == Voters(r) \ {r.id}
        ready == {i \in others : progressIsUpToDate(r, i)}
    IN  IF others = {} THEN 0
        ELSE IF ready # {} THEN CHOOSE i \in ready : \A j \in ready : i <= j
        ELSE CHOOSE i \in others : \A j \in others : i >= j

\* A variant of raft_transfer that records the transfer before it checks the
\* target.
raft_transferInitFirst(r, id, rv) ==
    LET target == IF id = 0 THEN clientSelectTransferee(r) ELSE id
        r1 == [r EXCEPT !.transfer = target, !.transfer_sent = FALSE]
        started(s) == [r |-> s.r, out |-> s.out, rv |-> 0]
    IN  IF r.state # "LEADER" \/ r.transfer # 0 THEN Returned(r, RAFT_NOTLEADER)
        ELSE IF target = 0 THEN Returned(r, RAFT_NOTFOUND)
        ELSE IF \/ ~configurationGet(r.configuration, target)
                \/ target = r.id
                \/ target \notin Voters(r)
        THEN Returned(r1, RAFT_BADID)
        ELSE IF ~progressIsUpToDate(r, target) THEN Returned(r1, 0)
        ELSE IF rv # 0 THEN Returned(r, rv)
        ELSE started(membershipLeadershipTransferStart(r1))

\* raft_transfer: hand the leadership over to server id, or to a voter of the
\* leader's choice when id is 0.  rv is what io->send returns.
raft_transfer(r, id, rv) ==
    LET target == IF id = 0 THEN clientSelectTransferee(r) ELSE id
        r1 == [r EXCEPT !.transfer = target, !.transfer_sent = FALSE]
        started(s) == [r |-> s.r, out |-> s.out, rv |-> 0]
    IN  IF r.state # "LEADER" \/ r.transfer # 0 THEN Returned(r, RAFT_NOTLEADER)
        ELSE IF target = 0 THEN Returned(r, RAFT_NOTFOUND)
        ELSE IF \/ ~configurationGet(r.configuration, target)
                \/ target = r.id
                \/ target \notin Voters(r)
        THEN Returned(r, RAFT_BADID)
        ELSE IF ~progressIsUpToDate(r, target) THEN Returned(r1, 0)
        ELSE IF rv # 0 THEN Returned(r, rv)
        ELSE started(membershipLeadershipTransferStart(r1))

\* ------------------------------------------------------------------ recv_request_vote_result.c

\* A variant of recvRequestVoteResult that counts every answer as a vote,
\* granted or not.
recvRequestVoteResultAnyAnswer(r, id, result, in) ==
    LET match == recvCheckMatchingTerms(r, result.term)
        update_term == recvUpdateMeta(r, NoMsg, result.term, 0,
                                      "recvVoteResultBumpTermIOCb", in.rv)
        r1 == [r EXCEPT !.votes = electionTallyVotes(r, id)]
        sent(hb) == [r |-> hb.r, out |-> hb.out, rv |-> 0]
        elected(leader) ==
            IF r.no_op THEN appendNoOp(leader, in.rv)
            ELSE sent(replicationHeartbeat(leader))
    IN  IF id \notin Voters(r) THEN [r |-> r, out |-> {}, rv |-> 0]
        ELSE IF r.state # "CANDIDATE" THEN [r |-> r, out |-> {}, rv |-> 0]
        ELSE IF r.in_pre_vote /\ result.term > r.current_term + 1
        THEN update_term
        ELSE IF ~r.in_pre_vote /\ result.pre_vote
        THEN [r |-> r, out |-> {}, rv |-> 0]
        ELSE IF ~r.in_pre_vote /\ match > 0 THEN update_term
        ELSE IF ~r.in_pre_vote /\ match < 0 THEN [r |-> r, out |-> {}, rv |-> 0]
        ELSE IF ~electionTally(r, id) THEN [r |-> r1, out |-> {}, rv |-> 0]
        ELSE IF r.in_pre_vote
        THEN electionStart([r1 EXCEPT !.in_pre_vote = FALSE], in.rv)
        ELSE elected(convertToLeader(r1))

\* A variant of recvRequestVoteResult in which a candidate in the real voting
\* phase counts a result flagged pre_vote like any other.
recvRequestVoteResultCountsPreVote(r, id, result, in) ==
    LET match == recvCheckMatchingTerms(r, result.term)
        update_term == recvUpdateMeta(r, NoMsg, result.term, 0,
                                      "recvVoteResultBumpTermIOCb", in.rv)
        r1 == [r EXCEPT !.votes = electionTallyVotes(r, id)]
        sent(hb) == [r |-> hb.r, out |-> hb.out, rv |-> 0]
        elected(leader) ==
            IF r.no_op THEN appendNoOp(leader, in.rv)
            ELSE sent(replicationHeartbeat(leader))
    IN  IF id \notin Voters(r) THEN [r |-> r, out |-> {}, rv |-> 0]
        ELSE IF r.state # "CANDIDATE" THEN [r |-> r, out |-> {}, rv |-> 0]
        ELSE IF r.in_pre_vote /\ result.term > r.current_term + 1
        THEN update_term
        ELSE IF ~r.in_pre_vote /\ match > 0 THEN update_term
        ELSE IF ~r.in_pre_vote /\ match < 0 THEN [r |-> r, out |-> {}, rv |-> 0]
        ELSE IF ~result.vote_granted THEN [r |-> r, out |-> {}, rv |-> 0]
        ELSE IF ~electionTally(r, id) THEN [r |-> r1, out |-> {}, rv |-> 0]
        ELSE IF r.in_pre_vote
        THEN electionStart([r1 EXCEPT !.in_pre_vote = FALSE], in.rv)
        ELSE elected(convertToLeader(r1))

\* recvRequestVoteResult: a candidate counts the vote of server `id`.  `in`
\* carries the outcomes of the I/O calls the handler makes.
recvRequestVoteResult(r, id, result, in) ==
    LET match == recvCheckMatchingTerms(r, result.term)
        update_term == recvUpdateMeta(r, NoMsg, result.term, 0,
                                      "recvVoteResultBumpTermIOCb", in.rv)
        r1 == [r EXCEPT !.votes = electionTallyVotes(r, id)]
        sent(hb) == [r |-> hb.r, out |-> hb.out, rv |-> 0]
        elected(leader) ==
            IF r.no_op THEN appendNoOp(leader, in.rv)
            ELSE sent(replicationHeartbeat(leader))
    IN  IF id \notin Voters(r) THEN [r |-> r, out |-> {}, rv |-> 0]
        ELSE IF r.state # "CANDIDATE" THEN [r |-> r, out |-> {}, rv |-> 0]
        ELSE IF r.in_pre_vote /\ result.term > r.current_term + 1
        THEN update_term
        ELSE IF ~r.in_pre_vote /\ result.pre_vote
        THEN [r |-> r, out |-> {}, rv |-> 0]
        ELSE IF ~r.in_pre_vote /\ match > 0 THEN update_term
        ELSE IF ~r.in_pre_vote /\ match < 0 THEN [r |-> r, out |-> {}, rv |-> 0]
        ELSE IF ~result.vote_granted THEN [r |-> r, out |-> {}, rv |-> 0]
        ELSE IF ~electionTally(r, id) THEN [r |-> r1, out |-> {}, rv |-> 0]
        ELSE IF r.in_pre_vote
        THEN electionStart([r1 EXCEPT !.in_pre_vote = FALSE], in.rv)
        ELSE elected(convertToLeader(r1))

\* recvVoteResultBumpTermIOCb: completion of the term bump of a candidate.
recvVoteResultBumpTermIOCb(r, status) ==
    LET request == r.meta
        r0 == [r EXCEPT !.meta = NoReq]
        r1 == [r0 EXCEPT !.io_state = "AVAILABLE",
                         !.current_term = request.term,
                         !.voted_for = request.voted_for]
    IN  IF r.state = "UNAVAILABLE" THEN [r |-> r0, out |-> {}]
        ELSE IF status # 0
        THEN [r |-> convertToUnavailable([r0 EXCEPT !.io_state = "AVAILABLE"]),
              out |-> {}]
        ELSE [r |-> IF r1.state # "FOLLOWER" THEN convertToFollower(r1) ELSE r1,
              out |-> {}]

\* ------------------------------------------------------------------ recv_timeout_now.c

\* recvTimeoutNow: a voting follower whose log ends where the leader's does
\* starts an election at once, with the disrupt_leader flag; rv is the status
\* of the metadata write of the election.
recvTimeoutNow(r, id, args, rv) ==
    IF \/ r.state # "FOLLOWER"
       \/ r.id \notin Voters(r)
       \/ recvCheckMatchingTerms(r, args.term) < 0
       \/ logLastIndex(r) # args.last_log_index
       \/ logLastTerm(r) # args.last_log_term
    THEN [r |-> r, out |-> {}, rv |-> 0]
    ELSE convertToCandidate(r, TRUE, rv)

\* ------------------------------------------------------------------ recv_append_entries.c, recv_append_entries_result.c

\* recvUpdateLeader
recvUpdateLeader(r, id) == [r EXCEPT !.current_leader = id]

\* recvAppendEntries: reject a request of a lower term; otherwise follow the
\* sender and hand the entries to replicationAppend; reply unless the reply is
\* due at the completion of the write.
recvAppendEntries(r, id, args, in) ==
    LET match == recvCheckMatchingTerms(r, args.term)
        r1 == recvUpdateLeader(
                 IF r.state = "CANDIDATE" THEN convertToFollower(r) ELSE r, id)
        reply(rr, rejected, last_log_index) ==
            {[type |-> "AppendEntriesResult", src |-> r.id, dst |-> id,
              term |-> rr.current_term, rejected |-> rejected,
              last_log_index |-> last_log_index, permit |-> args.permit]}
        appended(ra) ==
            IF ra.rv # 0 THEN [r |-> ra.r, out |-> ra.out, rv |-> ra.rv]
            ELSE IF ra.async THEN [r |-> ra.r, out |-> ra.out, rv |-> 0]
            ELSE [r |-> ra.r,
                  out |-> ra.out \cup reply(ra.r, ra.rejected, ra.r.last_stored),
                  rv |-> 0]
    IN  IF match < 0
        THEN [r |-> r, out |-> reply(r, args.prev_log_index, logLastIndex(r)),
              rv |-> 0]
        ELSE IF r.state \notin {"FOLLOWER", "CANDIDATE"}
        THEN [r |-> r, out |-> {}, rv |-> 0]
        ELSE appended(replicationAppend(r1, args, in.rv, in.garbage,
                                        in.snap_rv, in.grant))

\* recvAppendEntriesResult: a leader hands a reply of its own term to
\* replicationUpdate.
recvAppendEntriesResult(r, id, result, in) ==
    LET match == recvCheckMatchingTerms(r, result.term)
        updated(u) == [r |-> u.r, out |-> u.out, rv |-> 0]
    IN  IF r.state # "LEADER" \/ match < 0 \/ id \notin Server
        THEN [r |-> r, out |-> {}, rv |-> 0]
        ELSE updated(replicationUpdate(r, id, result, in.grant))

\* ------------------------------------------------------------------ recv.c, dispatcher

\* A variant of recvEnsureMatchingTerm that stores no vote with the new term,
\* whatever the message.
recvEnsureMatchingTermNoVote(r, message, rv) ==
    LET vote == 0
    IN  IF message.type \notin {"AppendEntries", "AppendEntriesResult",
                                "InstallSnapshot", "TimeoutNow"}
        THEN [r |-> r, out |-> {}, rv |-> 0, async |-> FALSE]
        ELSE IF recvCheckMatchingTerms(r, message.term) > 0
        THEN LET u == recvUpdateMeta(r, message, message.term, vote,
                                     "recvBumpTermIOCb", rv)
             IN  [r |-> u.r, out |-> {}, rv |-> u.rv, async |-> TRUE]
        ELSE [r |-> r, out |-> {}, rv |-> 0, async |-> FALSE]

\* recvEnsureMatchingTerm: a message of a higher term starts the write of
\* (term, vote); the vote is 0 for AppendEntriesResult and the sender for
\* AppendEntries, InstallSnapshot and TimeoutNow.  RequestVote and
\* RequestVoteResult are left to their handlers.
recvEnsureMatchingTerm(r, message, rv) ==
    LET vote == IF message.type = "AppendEntriesResult" THEN 0 ELSE message.src
    IN  IF message.type \notin {"AppendEntries", "AppendEntriesResult",
                                "InstallSnapshot", "TimeoutNow"}
        THEN [r |-> r, out |-> {}, rv |-> 0, async |-> FALSE]
        ELSE IF recvCheckMatchingTerms(r, message.term) > 0
        THEN LET u == recvUpdateMeta(r, message, message.term, vote,
                                     "recvBumpTermIOCb", rv)
             IN  [r |-> u.r, out |-> {}, rv |-> u.rv, async |-> TRUE]
        ELSE [r |-> r, out |-> {}, rv |-> 0, async |-> FALSE]

\* recvMessage: dispatch by type unless a term bump has been started.  The
\* handler of InstallSnapshot is not modelled: no specification delivers a
\* message of that type.  A transfer request is closed by convertToFollower,
\* so that none is left to close after the handler.
recvMessage(r, message, in) ==
    LET ensured(e) ==
            IF e.async THEN [r |-> e.r, out |-> {}, rv |-> e.rv]
            ELSE IF message.type = "AppendEntries"
            THEN recvAppendEntries(r, message.src, message, in)
            ELSE IF message.type = "AppendEntriesResult"
            THEN recvAppendEntriesResult(r, message.src, message, in)
            ELSE IF message.type = "RequestVote"
            THEN recvRequestVote(r, message.src, message, in.rv)
            ELSE IF message.type = "RequestVoteResult"
            THEN recvRequestVoteResult(r, message.src, message, in)
            ELSE IF message.type = "TimeoutNow"
            THEN recvTimeoutNow(r, message.src, message, in.rv)
            ELSE [r |-> r, out |-> {}, rv |-> 0]
    IN  ensured(recvEnsureMatchingTerm(r, message, in.rv))

\* A variant of recvCb that hands a message to its handler also while the
\* I/O is busy.
recvCbWhileBusy(r, message, in) ==
    LET handled(h) ==
            IF h.rv # 0 THEN [r |-> convertToUnavailable(h.r), out |-> h.out]
            ELSE [r |-> h.r, out |-> h.out]
    IN  IF r.state = "UNAVAILABLE"
        THEN [r |-> r, out |-> {}]
        ELSE handled(recvMessage(r, message, in))

\* recvCb: a message is dropped when the node is UNAVAILABLE or its I/O is
\* busy; an error of the handler makes the node UNAVAILABLE.
recvCb(r, message, in) ==
    LET handled(h) ==
            IF h.rv # 0 THEN [r |-> convertToUnavailable(h.r), out |-> h.out]
            ELSE [r |-> h.r, out |-> h.out]
    IN  IF r.state = "UNAVAILABLE" \/ r.io_state # "AVAILABLE"
        THEN [r |-> r, out |-> {}]
        ELSE handled(recvMessage(r, message, in))

\* A variant of recvBumpTermIOCb that takes the term of the message but leaves
\* a candidate or leader in its state.
recvBumpTermIOCbNoStepDown(r, status, in) ==
    LET request == r.meta
        r0 == [r EXCEPT !.meta = NoReq]
        r1 == [r0 EXCEPT !.io_state = "AVAILABLE",
                         !.current_term = request.term,
                         !.voted_for = request.voted_for]
    IN  IF r.state = "UNAVAILABLE" THEN [r |-> r0, out |-> {}]
        ELSE IF status # 0
        THEN [r |-> convertToUnavailable([r0 EXCEPT !.io_state = "AVAILABLE"]),
              out |-> {}]
        ELSE recvCb(r1, request.message, in)

\* recvBumpTermIOCb: completion of the term bump started by the dispatcher;
\* the message that caused it is dispatched again.
recvBumpTermIOCb(r, status, in) ==
    LET request == r.meta
        r0 == [r EXCEPT !.meta = NoReq]
        r1 == [r0 EXCEPT !.io_state = "AVAILABLE",
                         !.current_term = request.term,
                         !.voted_for = request.voted_for]
        r2 == IF r1.state # "FOLLOWER" THEN convertToFollower(r1) ELSE r1
    IN  IF r.state = "UNAVAILABLE" THEN [r |-> r0, out |-> {}]
        ELSE IF status # 0
        THEN [r |-> convertToUnavailable([r0 EXCEPT !.io_state = "AVAILABLE"]),
              out |-> {}]
        ELSE recvCb(r2, request.message, in)

\* ------------------------------------------------------------------ initial state

\* The struct raft of node n after raft_init / raft_start with nothing on disk
\* and a configuration of NServers voters.  configuration_committed is the
\* configuration that membershipRollback decodes again from the log or the
\* snapshot, change is whether leader_state.change holds a request, transfer
\* is the id of the target of the transfer request (0 for none), reg is the
\* queue of the requests that the registry holds, each with the index and
\* the type of its entry; breq is the index of the request that the barrier
\* of an election registered with no_op_cb (0 for none).
InitNode(n, pre_vote, no_op) ==
    [id |-> n, state |-> "FOLLOWER", current_term |-> 0, voted_for |-> 0,
     io_state |-> "AVAILABLE", meta |-> NoReq,
     current_leader |-> 0, in_pre_vote |-> FALSE, votes |-> {},
     disrupt_leader |-> FALSE, pre_vote |-> pre_vote, no_op |-> no_op,
     log |-> <<>>, offset |-> 0, snap_index |-> 0, snap_term |-> 0,
     snapshot_put |-> FALSE, snapshot_pending |-> [index |-> 0, term |-> 0],
     snapshot_threshold |-> 1024, snapshot_trailing |-> 1024,
     snapshot_puts |-> 0, snapshot_fault |-> FALSE,
     inflight_log_threshold |-> 0,
     commit_index |-> 0, last_stored |-> 0, last_applied |-> 0,
     last_applying |-> 0,
     last_append_time |-> 0, last_append_term |-> 0,
     progress |-> [i \in Server |-> initProgress(0)],
     appends |-> <<>>, applies |-> <<>>,
     configuration |-> Configuration([i \in Server |-> "VOTER"]),
     configuration_committed |-> Configuration([i \in Server |-> "VOTER"]),
     configuration_index |-> 0, configuration_uncommitted_index |-> 0,
     change |-> FALSE, promotee_id |-> 0, promotee_role |-> "NONE",
     remove_id |-> 0, round_number |-> 0, round_index |-> 0,
     transfer |-> 0, transfer_sent |-> FALSE, removed_from_cluster |-> FALSE, removed |-> FALSE,
     reg |-> <<>>, readable |-> FALSE, breq |-> 0]

\* The (term, vote) a node may load from its disk when it starts: nothing,
\* or what is left of an election it ran alone before it was restarted.
Persisted(n) ==
    {[term |-> 0, voted_for |-> 0]}
    \cup (IF n = NServers THEN {[term |-> 2, voted_for |-> n]} ELSE {})

\* A cluster of NServers nodes with empty logs; pre_vote and no_op are the
\* same on every node; `restarted` tells whether a node may start from a
\* (term, vote) other than (0, 0).
InitCluster(pre_votes, no_ops, restarted) ==
    /\ \E pre_vote \in pre_votes, no_op \in no_ops :
       \E meta \in [Server -> UNION {Persisted(n) : n \in Server}] :
          /\ \A n \in Server : meta[n] \in Persisted(n)
          /\ restarted \/ \A n \in Server : meta[n].term = 0
          /\ raft = [n \in Server |->
                        [InitNode(n, pre_vote, no_op) EXCEPT
                            !.current_term = meta[n].term,
                            !.voted_for = meta[n].voted_for]]
    /\ msgs = {}
    /\ timeouts = 0
    /\ faults = 0
    /\ fixture = setUp

\* ------------------------------------------------------------------ environment

\* What the environment of a specification does: faulty, whether I/O calls
\* may fail; garbages, the values try_truncate may read from its unassigned
\* rv and the statuses of pgrep_take_snapshot; grants, the answers of
\* pgrep_raft_permit; types, the message types the network delivers (the
\* messages of the other types are lost); cut, the pairs of nodes between
\* which the network delivers nothing (a partition); timers, for the k-th
\* expiry of a timer in a behaviour, the timers it may be, each a pair of a
\* node and "election" or "heartbeat";
\* duplicates, the types of the messages that the network may deliver more
\* than once; requests, the operations the clients submit.
Env(faulty, garbages, grants, types, cut, timers, duplicates, requests) ==
    [faulty |-> faulty, garbages |-> garbages, grants |-> grants, types |-> types,
     cut |-> cut, timers |-> timers, duplicates |-> duplicates,
     requests |-> requests]

\* A client operation: op is the function of client.c, id, role and remove are
\* its arguments (0 or "NONE" where the function has none).
Request(op, id, role, remove) == [op |-> op, id |-> id, role |-> role, remove |-> remove]

\* The call of the function of client.c that a request names; rv is what the
\* I/O call of the function returns, nomem the allocation that fails.
Call(r, req, rv, nomem) ==
    IF req.op = "raft_apply" THEN raft_apply(r, rv, nomem)
    ELSE IF req.op = "raft_barrier" THEN raft_barrier(r, rv, nomem)
    ELSE IF req.op = "raft_add" THEN raft_add(r, req.id, rv, nomem)
    ELSE IF req.op = "raft_dup" THEN raft_dup(r, rv, nomem)
    ELSE IF req.op = "raft_assign" THEN raft_assign(r, req.id, req.role, rv, nomem)
    ELSE IF req.op = "raft_joint_promote"
    THEN raft_joint_promote(r, req.id, req.role, req.remove, rv, nomem)
    ELSE IF req.op = "raft_remove" THEN raft_remove(r, req.id, rv, nomem)
    ELSE raft_transfer(r, req.id, rv)

\* The allocations that may fail now.
NoMems(env) ==
    IF env.faulty /\ faults < MaxFaults THEN {"", "log", "reg", "progress", "copy"}
    ELSE {""}

\* Up to MaxTimeouts expiries, each of the election timer of any of the first
\* NCandidates nodes.
AnyTimers == [k \in 1..MaxTimeouts |-> (1..NCandidates) \X {"election"}]

VoteTypes == {"RequestVote", "RequestVoteResult"}
AllTypes == VoteTypes \cup {"AppendEntries", "AppendEntriesResult"}

\* The statuses an I/O call may return now.
Statuses(env) ==
    IF env.faulty /\ faults < MaxFaults THEN {0, RAFT_IOERR} ELSE {0}

\* The outcomes of what one handler asks of its environment: rv, the status
\* of its I/O call; garbage; snap_rv; grant.
Inputs(rvs, env) ==
    [rv : rvs, garbage : env.garbages, snap_rv : env.garbages, grant : env.grants]

NoFault(in) == [in EXCEPT !.rv = 0]

\* A step of node n that takes the messages `taken` from the network and ends
\* in `res`; an injected error is counted.  What is sent across a cut link is
\* lost at once; a message that has been delivered stays in the network when
\* the network may duplicate messages of its type.
Step(n, res, failed, env, taken) ==
    /\ raft' = [raft EXCEPT ![n] = res.r]
    /\ msgs' = (msgs \ {m \in taken : m.type \notin env.duplicates})
                  \cup {m \in res.out : {m.src, m.dst} \notin env.cut}
    /\ faults' = IF failed THEN faults + 1 ELSE faults
    /\ UNCHANGED fixture

\* ------------------------------------------------------------------ actions

\* tick of a follower or candidate whose election timer has expired (timers
\* do not fire while the I/O is busy).  An error makes the node UNAVAILABLE.
Timeout(n, env) ==
    /\ timeouts < Len(env.timers)
    /\ <<n, "election">> \in env.timers[timeouts + 1]
    /\ raft[n].state \in {"FOLLOWER", "CANDIDATE"}
    /\ raft[n].io_state = "AVAILABLE"
    /\ \E rv \in Statuses(env) :
       \E c \in {convertToCandidate(raft[n], FALSE, rv)} :
          /\ rv # 0 => c.rv # 0
          /\ Step(n, [r |-> IF c.rv # 0 THEN convertToUnavailable(c.r) ELSE c.r,
                      out |-> c.out],
                  rv # 0, env, {})
    /\ timeouts' = timeouts + 1

\* tick of a leader whose heartbeat timer has expired.
LeaderTick(n, env) ==
    /\ timeouts < Len(env.timers)
    /\ <<n, "heartbeat">> \in env.timers[timeouts + 1]
    /\ raft[n].state = "LEADER"
    /\ LET r == raft[n]
           due == [r EXCEPT !.progress =
                      [i \in Server |-> [r.progress[i] EXCEPT !.needs_heartbeat = TRUE]]]
       IN  Step(n, replicationHeartbeat(due), FALSE, env, {})
    /\ timeouts' = timeouts + 1

\* tick of a leader whose heartbeat timer has expired, the timer being
\* periodic: it expires again and again, each time after the messages the
\* leader sent before have left the network.
Heartbeat(n, env) ==
    /\ raft[n].state = "LEADER"
    /\ \A m \in msgs : m.src # n
    /\ LET r == raft[n]
           due == [r EXCEPT !.progress =
                      [i \in Server |-> [r.progress[i] EXCEPT !.needs_heartbeat = TRUE]]]
       IN  Step(n, replicationHeartbeat(due), FALSE, env, {})
    /\ UNCHANGED timeouts

\* The network delivers message m.
Receive(n, m, env) ==
    /\ m.dst = n
    /\ m.type \in env.types
    /\ \E in \in Inputs(Statuses(env), env) :
       \E res \in {recvCb(raft[n], m, in)} :
          /\ in.rv # 0 => res # recvCb(raft[n], m, NoFault(in))
          /\ Step(n, res, in.rv # 0, env, {m})
    /\ UNCHANGED timeouts

\* io->set_meta completes.
MetaDone(n, env) ==
    /\ raft[n].meta # NoReq
    /\ \E status \in Statuses(env), in \in Inputs({0}, env) :
          LET cb == raft[n].meta.cb
              res == IF cb = "respondToRequestVote"
                     THEN respondToRequestVote(raft[n], status)
                     ELSE IF cb = "recvVoteResultBumpTermIOCb"
                     THEN recvVoteResultBumpTermIOCb(raft[n], status)
                     ELSE recvBumpTermIOCb(raft[n], status, in)
          IN  Step(n, res, status # 0, env, {})
    /\ UNCHANGED timeouts

\* io->append completes (writes complete in submission order).
AppendDone(n, env) ==
    /\ raft[n].appends # <<>>
    /\ \E status \in Statuses(env), grant \in env.grants :
          LET res == IF Head(raft[n].appends).cb = "appendLeaderCb"
                     THEN appendLeaderCb(raft[n], status, grant)
                     ELSE appendFollowerCb(raft[n], status, grant)
          IN  Step(n, res, status # 0, env, {})
    /\ UNCHANGED timeouts

\* fsm->apply completes.
ApplyDone(n, env) ==
    /\ raft[n].applies # <<>>
    /\ \E grant \in env.grants : Step(n, applyCommandCb(raft[n], grant), FALSE, env, {})
    /\ UNCHANGED timeouts

\* io->snapshot_put of a local snapshot completes.
SnapshotDone(n, env) ==
    /\ raft[n].snapshot_puts > 0
    /\ \E status \in Statuses(env) :
          Step(n, takeSnapshotCb(raft[n], status), status # 0, env, {})
    /\ UNCHANGED timeouts

\* A client submits a request to node n; at most one of the I/O call and an
\* allocation fails.
Client(n, env) ==
    /\ logLastIndex(raft[n]) < MaxLog
    /\ \E req \in env.requests, rv \in Statuses(env), nomem \in NoMems(env) :
       \E c \in {Call(raft[n], req, rv, nomem)} :
          /\ rv = 0 \/ nomem = ""
          /\ (rv # 0 \/ nomem # "") => c.rv \in {RAFT_IOERR, RAFT_NOMEM}
          /\ Step(n, [r |-> c.r, out |-> c.out], c.rv \in {RAFT_IOERR, RAFT_NOMEM},
                  env, {})
    /\ UNCHANGED timeouts

\* ------------------------------------------------------------------ specifications

\* Elections with I/O errors: timers, votes, term bumps and the heartbeats of
\* the winners; no pre-vote, no client request.
InitElection == InitCluster({FALSE}, {FALSE}, TRUE)

EnvElection == Env(TRUE, {0}, {TRUE}, AllTypes, {}, AnyTimers, AllTypes, {})

NextElection ==
    \/ \E n \in Server : Timeout(n, EnvElection)
    \/ \E n \in Server : \E m \in msgs : Receive(n, m, EnvElection)
    \/ \E n \in Server : MetaDone(n, EnvElection)

SpecElection == InitElection /\ [][NextElection]_vars

\* Elections that begin with the pre-vote phase, without I/O errors; the
\* network delivers the vote messages only.
InitPreVote == InitCluster({TRUE}, {FALSE}, FALSE)

EnvPreVote == Env(FALSE, {0}, {TRUE}, VoteTypes, {}, AnyTimers, AllTypes, {})

NextPreVote ==
    \/ \E n \in Server : Timeout(n, EnvPreVote)
    \/ \E n \in Server : \E m \in msgs : Receive(n, m, EnvPreVote)
    \/ \E n \in Server : MetaDone(n, EnvPreVote)

SpecPreVote == InitPreVote /\ [][NextPreVote]_vars

\* The same elections in a cluster where the last node has restarted with
\* the term and the vote of an election it ran alone.
SpecPreVoteRestart == InitCluster({TRUE}, {FALSE}, TRUE) /\ [][NextPreVote]_vars

\* Replication after a restart of the whole cluster.  What the nodes load
\* from their disks is what is left of two terms: node 1 led term 1 (elected
\* by 1 and 3) and wrote an entry to its own disk only; node 2 led term 2
\* (elected by 2 and 3, refused by 1, which took the term) and wrote an entry
\* to its own disk only, then ran alone for terms 3 and 4.  Every other node has an
\* empty disk but for the vote it gave in term 2.
Disk(n) ==
    IF n = 1
    THEN [term |-> 2, voted_for |-> 0,
          log |-> <<[term |-> 1, type |-> "COMMAND", data |-> 1,
                     conf |-> NoConf]>>]
    ELSE IF n = 2
    THEN [term |-> 4, voted_for |-> 2,
          log |-> <<[term |-> 2, type |-> "COMMAND", data |-> 2,
                     conf |-> NoConf]>>]
    ELSE [term |-> 2, voted_for |-> 2, log |-> <<>>]

\* raft_start: the node is a follower with the term, vote and log of its disk;
\* everything on disk is stored, nothing is known to be committed.
InitRestart ==
    /\ raft = [n \in Server |->
                  [InitNode(n, FALSE, FALSE) EXCEPT
                      !.current_term = Disk(n).term,
                      !.voted_for = Disk(n).voted_for,
                      !.log = Disk(n).log,
                      !.last_stored = Len(Disk(n).log)]]
    /\ msgs = {}
    /\ timeouts = 0
    /\ faults = 0
    /\ fixture = setUp

\* No I/O errors; nodes 1 and 2 reach each other only through the others;
\* five timers expire, in this order: election and heartbeat of node 1,
\* election of node 3, election and heartbeat of node 2; messages are lost or
\* reordered, not duplicated.
EnvReplication ==
    Env(FALSE, {0}, {TRUE}, AllTypes, {{1, 2}},
        <<{<<1, "election">>}, {<<1, "heartbeat">>}, {<<3, "election">>},
          {<<2, "election">>}, {<<2, "heartbeat">>}>>,
        {}, {})

NextReplication ==
    \/ \E n \in Server : Timeout(n, EnvReplication)
    \/ \E n \in Server : LeaderTick(n, EnvReplication)
    \/ \E n \in Server : \E m \in msgs : Receive(n, m, EnvReplication)
    \/ \E n \in Server : MetaDone(n, EnvReplication)
    \/ \E n \in Server : AppendDone(n, EnvReplication)
    \/ \E n \in Server : ApplyDone(n, EnvReplication)

SpecReplication == InitRestart /\ [][NextReplication]_vars

\* The roles of the servers in the configuration the cluster starts with.
LeaderRoles == [i \in Server |-> IF i = NServers THEN "SPARE" ELSE "VOTER"]

\* A leader and its clients.  Servers 1 and 2 are voters, server 3 is a spare;
\* nothing is on disk.
InitLeader ==
    /\ raft = [n \in Server |->
                  [InitNode(n, FALSE, FALSE) EXCEPT
                      !.configuration = Configuration(LeaderRoles),
                      !.configuration_committed = Configuration(LeaderRoles)]]
    /\ msgs = {}
    /\ timeouts = 0
    /\ faults = 0
    /\ fixture = setUp

\* I/O calls and allocations may fail; three timers expire, in this order:
\* election of node 1, heartbeat of node 1 or election of node 2, heartbeat
\* of node 1; the clients submit commands and barriers.
EnvLeader ==
    Env(TRUE, {0}, {TRUE}, AllTypes, {},
        <<{<<1, "election">>}, {<<1, "heartbeat">>, <<2, "election">>},
          {<<1, "heartbeat">>}>>,
        {},
        {Request("raft_apply", 0, "NONE", 0),
         Request("raft_barrier", 0, "NONE", 0)})

NextLeader ==
    \/ \E n \in Server : Timeout(n, EnvLeader)
    \/ \E n \in Server : LeaderTick(n, EnvLeader)
    \/ \E n \in Server : \E m \in msgs : Receive(n, m, EnvLeader)
    \/ \E n \in Server : MetaDone(n, EnvLeader)
    \/ \E n \in Server : AppendDone(n, EnvLeader)
    \/ \E n \in Server : ApplyDone(n, EnvLeader)
    \/ \E n \in Server : Client(n, EnvLeader)

SpecLeader == InitLeader /\ [][NextLeader]_vars

\* Leaders that append a barrier when they win an election (no_op), in a
\* cluster of voters the last of which is cut off from the others.  Nothing
\* fails; three timers expire, in this order: election of node 1, heartbeat
\* of node 1 or election of node 2, heartbeat of a leader; the clients
\* submit commands and barriers of their own.
EnvNoOp ==
    Env(FALSE, {0}, {TRUE}, AllTypes, {{n, NServers} : n \in 1..(NServers - 1)},
        <<{<<1, "election">>}, {<<1, "heartbeat">>, <<2, "election">>},
          {<<1, "heartbeat">>, <<2, "heartbeat">>}>>,
        {}, {Request("raft_apply", 0, "NONE", 0),
             Request("raft_barrier", 0, "NONE", 0)})

NextNoOp ==
    \/ \E n \in Server : Timeout(n, EnvNoOp)
    \/ \E n \in Server : LeaderTick(n, EnvNoOp)
    \/ \E n \in Server : \E m \in msgs : Receive(n, m, EnvNoOp)
    \/ \E n \in Server : MetaDone(n, EnvNoOp)
    \/ \E n \in Server : AppendDone(n, EnvNoOp)
    \/ \E n \in Server : ApplyDone(n, EnvNoOp)
    \/ \E n \in Server : Client(n, EnvNoOp)

SpecNoOp == InitCluster({FALSE}, {TRUE}, FALSE) /\ [][NextNoOp]_vars

\* A leader that changes the configuration.  I/O calls and allocations may
\* fail; two timers expire: election of node 1, then its heartbeat; the
\* clients promote the spare to a voter, at once or through a joint
\* configuration in which server 2 leaves, leave the joint configuration,
\* and hand the leadership over to server 2.
EnvMembership ==
    Env(TRUE, {0}, {TRUE}, AllTypes, {},
        <<{<<1, "election">>}, {<<1, "heartbeat">>}>>,
        {},
        {Request("raft_joint_promote", NServers, "VOTER", 2),
         Request("raft_remove", 2, "NONE", 0),
         Request("raft_assign", NServers, "VOTER", 0),
         Request("raft_transfer", 2, "NONE", 0)})

NextMembership ==
    \/ \E n \in Server : Timeout(n, EnvMembership)
    \/ \E n \in Server : LeaderTick(n, EnvMembership)
    \/ \E n \in Server : \E m \in msgs : Receive(n, m, EnvMembership)
    \/ \E n \in Server : MetaDone(n, EnvMembership)
    \/ \E n \in Server : AppendDone(n, EnvMembership)
    \/ \E n \in Server : Client(n, EnvMembership)

SpecMembership == InitLeader /\ [][NextMembership]_vars

\* A leader that is removed from the cluster.  I/O calls and allocations may
\* fail; two timers expire: election of node 1, then its heartbeat; the
\* clients remove server 1, the leader, and submit commands.
EnvRemoval ==
    Env(TRUE, {0}, {TRUE}, AllTypes, {},
        <<{<<1, "election">>}, {<<1, "heartbeat">>}>>,
        {},
        {Request("raft_remove", 1, "NONE", 0),
         Request("raft_apply", 0, "NONE", 0)})

NextRemoval ==
    \/ \E n \in Server : Timeout(n, EnvRemoval)
    \/ \E n \in Server : LeaderTick(n, EnvRemoval)
    \/ \E n \in Server : \E m \in msgs : Receive(n, m, EnvRemoval)
    \/ \E n \in Server : MetaDone(n, EnvRemoval)
    \/ \E n \in Server : AppendDone(n, EnvRemoval)
    \/ \E n \in Server : ApplyDone(n, EnvRemoval)
    \/ \E n \in Server : Client(n, EnvRemoval)

SpecRemoval == InitLeader /\ [][NextRemoval]_vars

\* A leader that takes snapshots.  Every node takes a snapshot as soon as one
\* entry has been applied since the last one and keeps one trailing entry; the
\* I/O of node 1 may be set to fail its next snapshot_put.
InitSnapshot ==
    /\ \E fault \in BOOLEAN :
          raft = [n \in Server |->
                     [InitNode(n, FALSE, FALSE) EXCEPT
                         !.configuration = Configuration(LeaderRoles),
                         !.configuration_committed = Configuration(LeaderRoles),
                         !.snapshot_threshold = 1,
                         !.snapshot_trailing = 1,
                         !.snapshot_fault = fault /\ n = 1]]
    /\ msgs = {}
    /\ timeouts = 0
    /\ faults = 0
    /\ fixture = setUp

\* Nothing else fails; three timers expire, in this order: election of node
\* 1, then twice its heartbeat; the clients submit commands and barriers.
EnvSnapshot ==
    Env(FALSE, {0}, {TRUE}, AllTypes, {},
        <<{<<1, "election">>}, {<<1, "heartbeat">>}, {<<1, "heartbeat">>}>>,
        {},
        {Request("raft_apply", 0, "NONE", 0),
         Request("raft_barrier", 0, "NONE", 0)})

NextSnapshot ==
    \/ \E n \in Server : Timeout(n, EnvSnapshot)
    \/ \E n \in Server : LeaderTick(n, EnvSnapshot)
    \/ \E n \in Server : \E m \in msgs : Receive(n, m, EnvSnapshot)
    \/ \E n \in Server : MetaDone(n, EnvSnapshot)
    \/ \E n \in Server : AppendDone(n, EnvSnapshot)
    \/ \E n \in Server : ApplyDone(n, EnvSnapshot)
    \/ \E n \in Server : SnapshotDone(n, EnvSnapshot)
    \/ \E n \in Server : Client(n, EnvSnapshot)

SpecSnapshot == InitSnapshot /\ [][NextSnapshot]_vars

\* The log of the leader of term 1 that brings server NServers up to date: a
\* command, a barrier and a command.
CatchUpLog ==
    <<[term |-> 1, type |-> "COMMAND", data |-> 1, conf |-> NoConf],
      [term |-> 1, type |-> "BARRIER", data |-> 1, conf |-> NoConf],
      [term |-> 1, type |-> "COMMAND", data |-> 1, conf |-> NoConf]>>

\* An AppendEntries message of that leader to server NServers, as
\* sendAppendEntries builds it: `prev` is prev_log_index, `to` the index of
\* the last entry sent, `commit` the leader's commit_index, `replicating` the
\* kind of message ("NML" outside a catch-up round, "BGN" for the message
\* that begins a round, "ING" for the messages within it), `time` the time
\* stamp of the permit of the round.
CatchUpMessage(prev, to, commit, replicating, time) ==
    [type |-> "AppendEntries", src |-> 1, dst |-> NServers, term |-> 1,
     prev_log_index |-> prev, prev_log_term |-> IF prev = 0 THEN 0 ELSE 1,
     entries |-> SubSeq(CatchUpLog, prev + 1, to), leader_commit |-> commit,
     replicating |-> replicating, permit |-> replicating # "NML", time |-> time]

\* What the leader has sent to server NServers: its three entries before any
\* is committed, a heartbeat once two of them are committed and one once all
\* are, and, after it has applied the first two, a catch-up round: the
\* message that begins it and the section of the log applied since.
CatchUpMessages ==
    {CatchUpMessage(0, 3, 0, "NML", 0),
     CatchUpMessage(3, 3, 2, "NML", 0),
     CatchUpMessage(3, 3, 3, "NML", 0),
     CatchUpMessage(2, 2, 2, "BGN", 1),
     CatchUpMessage(2, 3, 3, "ING", 2)}

\* A follower and the messages on their way to it.  Server 1 is the leader of
\* term 1, for which servers 2 and NServers voted; server NServers has
\* nothing in its log yet; the network holds any of the messages the leader
\* has sent to it.
InitFollower ==
    /\ \E sent \in SUBSET CatchUpMessages :
          msgs = sent
    /\ raft = [n \in Server |->
                  IF n = 1
                  THEN [InitNode(n, FALSE, FALSE) EXCEPT
                           !.state = "LEADER",
                           !.current_term = 1,
                           !.voted_for = 1,
                           !.log = CatchUpLog,
                           !.last_stored = Len(CatchUpLog),
                           !.commit_index = Len(CatchUpLog),
                           !.last_applying = Len(CatchUpLog),
                           !.last_applied = Len(CatchUpLog),
                           !.progress = [i \in Server |->
                               IF i = 1
                               THEN [initProgress(0) EXCEPT
                                        !.match_index = Len(CatchUpLog)]
                               ELSE initProgress(0)]]
                  ELSE [InitNode(n, FALSE, FALSE) EXCEPT
                           !.current_term = 1,
                           !.voted_for = 1]]
    /\ timeouts = 0
    /\ faults = 0
    /\ fixture = setUp

\* No timer expires and no I/O call fails, but try_truncate may read any
\* value from its unassigned rv and pgrep_take_snapshot may fail; the network
\* delivers the AppendEntries messages in any order and loses the answers.
EnvFollower ==
    Env(FALSE, {0, RAFT_IOERR}, {TRUE}, {"AppendEntries"}, {}, <<>>, {}, {})

NextFollower ==
    \/ \E n \in Server : \E m \in msgs : Receive(n, m, EnvFollower)
    \/ \E n \in Server : AppendDone(n, EnvFollower)
    \/ \E n \in Server : ApplyDone(n, EnvFollower)

SpecFollower == InitFollower /\ [][NextFollower]_vars

\* A leader that probes followers whose logs are prefixes of its own, after a
\* restart of the whole cluster.  Node 1 led term 1 (elected by all) and wrote
\* two entries to its disk; node NServers holds the first of them, node 2
\* none.
InitProbe ==
    LET entry == [term |-> 1, type |-> "COMMAND", data |-> 1, conf |-> NoConf]
        disk == [n \in Server |->
                    IF n = 1 THEN <<entry, entry>>
                    ELSE IF n = NServers THEN <<entry>>
                    ELSE <<>>]
    IN  /\ raft = [n \in Server |->
                      [InitNode(n, FALSE, FALSE) EXCEPT
                          !.current_term = 1,
                          !.voted_for = 1,
                          !.log = disk[n],
                          !.last_stored = Len(disk[n])]]
        /\ msgs = {}
        /\ timeouts = 0
        /\ faults = 0
        /\ fixture = setUp

\* No I/O errors; two timers expire: election of node 1, then its heartbeat;
\* the network delivers the messages in any order, loses them, and may
\* deliver an AppendEntriesResult more than once.
EnvProbe ==
    Env(FALSE, {0}, {TRUE}, AllTypes, {},
        <<{<<1, "election">>}, {<<1, "heartbeat">>}>>,
        {"AppendEntriesResult"}, {})

NextProbe ==
    \/ \E n \in Server : Timeout(n, EnvProbe)
    \/ \E n \in Server : LeaderTick(n, EnvProbe)
    \/ \E n \in Server : \E m \in msgs : Receive(n, m, EnvProbe)
    \/ \E n \in Server : MetaDone(n, EnvProbe)
    \/ \E n \in Server : AppendDone(n, EnvProbe)
    \/ \E n \in Server : ApplyDone(n, EnvProbe)

SpecProbe == InitProbe /\ [][NextProbe]_vars

\* A leadership transfer in a cluster of voters with empty logs.  No I/O
\* call fails; one timer expires, the election timer of node 1; the network
\* delivers the messages of every type but InstallSnapshot in any order, or
\* loses them; the clients ask for a transfer to the last server.
EnvTransfer ==
    Env(FALSE, {0}, {TRUE}, AllTypes \cup {"TimeoutNow"}, {},
        <<{<<1, "election">>}>>, {},
        {Request("raft_transfer", NServers, "NONE", 0)})

NextTransfer ==
    \/ \E n \in Server : Timeout(n, EnvTransfer)
    \/ \E n \in Server : \E m \in msgs : Receive(n, m, EnvTransfer)
    \/ \E n \in Server : MetaDone(n, EnvTransfer)
    \/ \E n \in Server : Client(n, EnvTransfer)

SpecTransfer == InitElection /\ [][NextTransfer]_vars

\* The configuration object on its own: servers are added and removed, the
\* configuration is encoded, and buffers are decoded: the encoding just made,
\* its short form as written by a version without joint consensus, a buffer
\* with another version byte, and the buffers of test_configuration.c.
MaxN == 2

\* The buffers that test_configuration.c decodes: one server and two servers,
\* each in the short and in the long form, and the buffer of badVersion.
TestBuffers ==
    LET one == <<1, 1, 0, 0, 0, 0, 0, 0, 0, 5, 0, 0, 0, 0, 0, 0, 0, 2>>
        two == <<1, 2, 0, 0, 0, 0, 0, 0, 0, 5, 0, 0, 0, 0, 0, 0, 0, 1,
                 3, 0, 0, 0, 0, 0, 0, 0, 2>>
        metas == <<1, 0, 0, 0, 1, 0, 0, 0, 11, 0, 0, 0, 1>>
                    \o [k \in 1..(CONF_META_SIZE - 13) |-> 0]
        nservers1 == <<5, 0, 0, 0, 0, 0, 0, 0, 2, 1, 3>>
        nservers2 == <<5, 0, 0, 0, 0, 0, 0, 0, 1, 1, 3, 3, 0, 0, 0, 0, 0, 0, 0, 2, 1, 3>>
    IN  {one, one \o metas \o nservers1, two, two \o metas \o nservers2, <<127>>}

\* The short form of an encoding: what precedes the meta block, as it is or
\* with zeros up to a multiple of 8 bytes.
ShortForms(buf) ==
    LET short == SubSeq(buf, 1, 9 + 9 * byteGet(buf, 2, 8))
    IN  {short, short \o [k \in 1..(bytePad64(Len(short)) - Len(short)) |-> 0]}

\* An encoding with another version byte.
BadVersions(buf) == {[buf EXCEPT ![1] = v] : v \in {0, 2, 127}}

\* The operations on the fixture: ADD_RV with any role, new role and group
\* (a buffer encoded before has been freed); REMOVE_RV; ENCODE_RV; DECODE_RV
\* into the configuration, closed and initialised again, of a buffer of the
\* tests or of the encoding just made, as it is, in its short form or with
\* another version byte.
NextConfiguration ==
    \/ /\ Len(fixture.configuration.servers) < MaxN
       /\ \E id \in {4, 258},
             role \in {RAFT_STANDBY, RAFT_VOTER, RAFT_SPARE, RAFT_LOGGER, 666},
             role_new \in {RAFT_STANDBY, RAFT_VOTER, RAFT_SPARE, RAFT_LOGGER},
             group \in {RAFT_GROUP_OLD, RAFT_GROUP_NEW,
                        RAFT_GROUP_OLD + RAFT_GROUP_NEW} :
             LET res == configurationAdd(fixture.configuration, id, role,
                                         role_new, group)
             IN  fixture' = [configuration |-> res.c, buf |-> <<>>, op |-> "ADD",
                             rv |-> res.rv]
       /\ UNCHANGED <<raft, msgs, timeouts, faults>>
    \/ /\ \E id \in {1, 4, 5, 258} :
             LET res == REMOVE_RV(fixture.configuration, id)
             IN  fixture' = [configuration |-> res.c, buf |-> <<>>, op |-> "REMOVE",
                             rv |-> res.rv]
       /\ UNCHANGED <<raft, msgs, timeouts, faults>>
    \/ /\ fixture' = [fixture EXCEPT
                         !.buf = configurationEncode(fixture.configuration),
                         !.op = "ENCODE", !.rv = 0]
       /\ UNCHANGED <<raft, msgs, timeouts, faults>>
    \/ /\ \E buf \in TestBuffers
                        \cup (IF fixture.op = "ENCODE"
                              THEN {fixture.buf} \cup ShortForms(fixture.buf)
                                      \cup BadVersions(fixture.buf)
                              ELSE {}) :
             LET res == configurationDecode(buf)
             IN  fixture' = [configuration |-> res.c, buf |-> buf, op |-> "DECODE",
                             rv |-> res.rv]
       /\ UNCHANGED <<raft, msgs, timeouts, faults>>

\* The fixture after setUp; the nodes take no step.
SpecConfiguration ==
    InitCluster({FALSE}, {FALSE}, FALSE) /\ [][NextConfiguration]_vars


\* progressShouldReplicate on its own: node 1 is a leader whose log, whose
\* inflight_log_threshold and whose progress for node 2 are chosen freely
\* (next_index at most last_index + 1, as the function asserts; match_index
\* anywhere up to last_index), then the function is called for node 2 and
\* its result kept.
MaxThreshold == 2

NextProgress ==
    \/ /\ \E last \in 0..MaxLog, threshold \in 0..MaxThreshold,
             state \in {"PROBE", "PIPELINE"}, needs_heartbeat \in BOOLEAN :
          \E next_index \in 1..(last + 1), match_index \in 0..last :
             LET leader == convertToLeader(
                               [raft[1] EXCEPT
                                   !.current_term = 1, !.voted_for = 1,
                                   !.inflight_log_threshold = threshold,
                                   !.log = [k \in 1..last |->
                                               [type |-> "COMMAND", term |-> 1,
                                                conf |-> NoConf, data |-> k]],
                                   !.last_stored = last])
             IN  raft' = [raft EXCEPT ![1] =
                             [leader EXCEPT !.progress[2] =
                                 [next_index |-> next_index,
                                  match_index |-> match_index,
                                  state |-> state,
                                  needs_heartbeat |-> needs_heartbeat]]]
       /\ fixture' = setUp
       /\ UNCHANGED <<msgs, timeouts, faults>>
    \/ /\ raft[1].state = "LEADER"
       /\ fixture' = [fixture EXCEPT
                         !.op = "progressShouldReplicate",
                         !.rv = IF progressShouldReplicate(raft[1], 2) THEN 1 ELSE 0]
       /\ UNCHANGED <<raft, msgs, timeouts, faults>>

SpecProgress ==
    InitCluster({FALSE}, {FALSE}, FALSE) /\ [][NextProgress]_vars


\* Progress: the election timer of node 1 expires once, the heartbeat timer
\* of a leader expires again and again, clients submit raft_apply, nothing
\* fails; the last server is cut off from the others, which are a majority.
EnvLiveness ==
    Env(FALSE, {0}, {TRUE}, AllTypes, {{n, NServers} : n \in 1..(NServers - 1)},
        <<{<<1, "election">>}>>, {}, {Request("raft_apply", 0, "NONE", 0)})

NextLiveness ==
    \/ \E n \in Server : Timeout(n, EnvLiveness)
    \/ \E n \in Server : Heartbeat(n, EnvLiveness)
    \/ \E n \in Server : \E m \in msgs : Receive(n, m, EnvLiveness)
    \/ \E n \in Server : MetaDone(n, EnvLiveness)
    \/ \E n \in Server : AppendDone(n, EnvLiveness)
    \/ \E n \in Server : ApplyDone(n, EnvLiveness)
    \/ \E n \in Server : Client(n, EnvLiveness)

\* Timers expire, messages are delivered and I/O requests complete: none of
\* these steps stays possible for ever without being taken (weak fairness);
\* the clients are free to submit or not.  For the heartbeat, the deliveries
\* to a node and the completion of appends, weak fairness is written out as
\* "infinitely often not enabled, or infinitely often taken" with the
\* enabling condition of the action: a leader with none of its messages in
\* the network, a message on the link, a pending append.  Delivery is fair
\* on every link between two servers that can exchange messages: a message
\* of one sender does not wait for ever behind those of another.
SpecLiveness ==
    /\ InitCluster({FALSE}, {FALSE}, FALSE)
    /\ [][NextLiveness]_vars
    /\ WF_vars(\E n \in Server : Timeout(n, EnvLiveness))
    /\ WF_vars(\E n \in Server : MetaDone(n, EnvLiveness))
    /\ WF_vars(\E n \in Server : ApplyDone(n, EnvLiveness))
    /\ \/ []<>(\A n \in Server : raft[n].state = "LEADER" => \E m \in msgs : m.src = n)
       \/ []<><<\E n \in Server : Heartbeat(n, EnvLiveness)>>_vars
    /\ \A link \in {l \in (1..(NServers - 1)) \X (1..(NServers - 1)) : l[1] # l[2]} :
          \/ []<>(\A m \in msgs : m.src # link[1] \/ m.dst # link[2])
          \/ []<><<\E m \in msgs : /\ m.src = link[1]
                                    /\ m.dst = link[2]
                                    /\ Receive(link[2], m, EnvLiveness)>>_vars
    /\ \/ []<>(\A n \in Server : raft[n].appends = <<>>)
       \/ []<><<\E n \in Server : AppendDone(n, EnvLiveness)>>_vars

\* ------------------------------------------------------------------ claims: elections

\* The granted answers to real (non-pre-vote) RequestVote requests sent so far.
RealGrants ==
    {m \in msgs : m.type = "RequestVoteResult" /\ ~m.pre_vote /\ m.vote_granted}

\* C1 -- Election safety: at most one node is LEADER for a given term.  A
\* leader announces itself with AppendEntries of its term as soon as it is
\* elected, so the property is stated over the nodes that are leaders now and
\* over all that ever announced themselves: no two of them share a term.
C1_ElectionSafety ==
    /\ \A a, b \in Server :
          (/\ raft[a].state = "LEADER"
           /\ raft[b].state = "LEADER"
           /\ raft[a].current_term = raft[b].current_term) => a = b
    /\ \A m \in msgs : m.type = "AppendEntries" =>
          /\ \A k \in msgs : (k.type = "AppendEntries" /\ k.term = m.term)
                                => k.src = m.src
          /\ \A a \in Server :
                (raft[a].state = "LEADER" /\ raft[a].current_term = m.term)
                   => a = m.src

\* C1, witness: a node is leader of a term in which another node was a
\* candidate too (it holds its own vote of that term), after a pre-vote round.
C1_Witness ==
    \E a, b \in Server :
        /\ a # b
        /\ raft[a].state = "LEADER"
        /\ raft[a].pre_vote
        /\ raft[b].current_term = raft[a].current_term
        /\ raft[b].voted_for = b

StoredVote(request) ==
    IF request.cb = "recvBumpTermIOCb"
    THEN IF request.message.type = "AppendEntries" THEN request.message.src ELSE 0
    ELSE IF request.cb = "respondToRequestVote"
    THEN IF request.message.vote_granted THEN request.message.dst ELSE 0
    ELSE 0

\* A step in which the term of node n increases because of a received message
\* (not because of its own election timer).
BumpedByMessage(n) ==
    /\ raft'[n].current_term > raft[n].current_term
    /\ timeouts' = timeouts

\* C6 (as stated) -- whenever current_term increases because of a message of
\* a higher term, the voted_for stored with the new term is 0.  The statement
\* is taken at the term bump it cites, the one of the dispatcher
\* (recvEnsureMatchingTerm and recvBumpTermIOCb).
C6_VoteResetToZero ==
    [][\A n \in Server :
          (BumpedByMessage(n) /\ raft[n].meta.cb = "recvBumpTermIOCb")
             => raft'[n].voted_for = 0]_vars

\* C6 (amended) -- whenever current_term increases because of a message of a
\* higher term, the voted_for stored with the new term is 0 for an
\* AppendEntriesResult, a RequestVoteResult and a RequestVote that is not
\* granted, the sender's id for an AppendEntries, and the candidate's id for a
\* granted RequestVote.
C6_VoteAfterBump ==
    [][\A n \in Server : BumpedByMessage(n) =>
          /\ raft[n].meta # NoReq
          /\ raft'[n].current_term = raft[n].meta.term
          /\ raft'[n].voted_for = StoredVote(raft[n].meta)]_vars

\* C6, witness: a node holds, in a term it did not start itself, a vote for
\* the leader whose AppendEntries bumped its term (it never answered a
\* RequestVote of that leader with a grant).
C6_Witness ==
    \E n \in Server :
        /\ raft[n].voted_for \notin {0, n}
        /\ raft[n].current_leader = raft[n].voted_for
        /\ \A m \in RealGrants : m.src # n

VoteWritePending(n) == raft[n].meta.cb = "respondToRequestVote"

\* C8 -- a granted answer to a real RequestVote is sent only after the write
\* of (term, voted_for = candidate) has succeeded: every granted answer in the
\* network is backed by the voter's persisted term and vote; the completion of
\* a vote's write either stores the pair and sends the answer, or (the write
\* failed) sends nothing, stores nothing and leaves the node UNAVAILABLE.
C8_GrantAfterPersist ==
    [][/\ \A m \in RealGrants' :
             /\ raft'[m.src].current_term >= m.term
             /\ raft'[m.src].current_term = m.term => raft'[m.src].voted_for = m.dst
       /\ \A n \in Server :
             (VoteWritePending(n) /\ raft'[n].meta = NoReq) =>
                \/ /\ raft'[n].current_term = raft[n].meta.term
                   /\ raft'[n].voted_for = raft[n].meta.voted_for
                   /\ raft[n].meta.message \in msgs'
                \/ /\ raft'[n].state = "UNAVAILABLE"
                   /\ raft'[n].current_term = raft[n].current_term
                   /\ raft'[n].voted_for = raft[n].voted_for
                   /\ msgs' = msgs
       /\ \A n \in Server :
             VoteWritePending(n) => msgs' \ msgs \subseteq
                {m \in msgs' : m.src # n \/ raft'[n].meta = NoReq}]_vars

\* C8, witness: the write of a vote failed: the only election timeout so far
\* produced a RequestVote of a higher term for node n, the one I/O error hit
\* n's write, n is UNAVAILABLE and never granted a vote.
C8_Witness ==
    \E n \in Server :
        /\ raft[n].state = "UNAVAILABLE"
        /\ raft[n].io_state = "AVAILABLE"
        /\ timeouts = 1
        /\ faults = 1
        /\ \E m \in msgs : /\ m.type = "RequestVote" /\ m.dst = n
                           /\ ~m.pre_vote /\ m.term > raft[n].current_term
        /\ \A m \in msgs : m.type = "AppendEntries" => m.dst # n
        /\ \A m \in RealGrants : m.src # n

\* C14 -- Term bumps are serialized.  While a metadata write submitted by
\* recvUpdateMeta is pending on a node: the I/O of the node is BUSY; recvCb
\* drops every message in the network, whatever the environment answers,
\* leaving the node as it is and sending nothing; and current_term and
\* voted_for keep their values until the step that takes the request away,
\* which either stores both values of the request or neither.
C14_TermBumpSerialized ==
    [][\A n \in Server :
          raft[n].meta # NoReq =>
             /\ raft[n].io_state = "BUSY"
             /\ \A m \in msgs : \A in \in Inputs({0, RAFT_IOERR}, EnvElection) :
                   recvCb(raft[n], m, in) = [r |-> raft[n], out |-> {}]
             /\ raft'[n].meta = raft[n].meta =>
                   /\ raft'[n].current_term = raft[n].current_term
                   /\ raft'[n].voted_for = raft[n].voted_for
             /\ raft'[n].meta # raft[n].meta =>
                   /\ raft'[n].meta = NoReq
                   /\ \/ /\ raft'[n].current_term = raft[n].meta.term
                         /\ raft'[n].voted_for = raft[n].meta.voted_for
                      \/ /\ raft'[n].current_term = raft[n].current_term
                         /\ raft'[n].voted_for = raft[n].voted_for]_vars

\* A term bump is pending on a node, its I/O is BUSY, and a message of a term
\* above the node's own waits for it in the network.
C14_Witness ==
    \E n \in Server : \E m \in msgs :
       /\ raft[n].meta # NoReq
       /\ raft[n].meta.term > raft[n].current_term
       /\ raft[n].io_state = "BUSY"
       /\ m.dst = n
       /\ m.term > raft[n].current_term

\* ------------------------------------------------------------------ claims: replication

\* A node that has not been shut down.
Live(n) == raft[n].state # "UNAVAILABLE"

\* The entry of node n at index i, or NoMsg when its log holds none there.
EntryAt(n, i) ==
    IF i > raft[n].offset /\ i <= logLastIndex(raft[n])
    THEN logGet(raft[n], i)
    ELSE NoMsg

\* C2 -- Log matching / state-machine safety: for every index i committed on
\* some node, every live node whose commit_index is at least i holds at i an
\* entry of the same term and payload.
C2_StateMachineSafety ==
    \A a, b \in Server :
        (Live(a) /\ Live(b)) =>
            \A i \in 1..min(raft[a].commit_index, raft[b].commit_index) :
                EntryAt(a, i) = EntryAt(b, i)

\* C10 -- a leader advances its commit_index to N only if the entry at N is
\* of its current term.
C10_CommitCurrentTermOnly ==
    [][\A n \in Server :
          (/\ raft[n].state = "LEADER"
           /\ raft'[n].state = "LEADER"
           /\ raft'[n].commit_index > raft[n].commit_index)
             => logTermOf(raft'[n], raft'[n].commit_index) = raft'[n].current_term]_vars

\* ------------------------------------------------------------------ claims: membership

\* The voters of one group of the configuration of node n.
GroupVoters(n, group) ==
    {i \in Server : configurationIsVoter(raft[n].configuration, i, {group})}

\* Whether the log of node n holds, at or below `index`, the CHANGE entry of
\* a joint configuration.
JointEntryUpTo(n, index) ==
    \E k \in (raft[n].offset + 1)..index :
       /\ k <= logLastIndex(raft[n])
       /\ logGet(raft[n], k).type = "CHANGE"
       /\ logGet(raft[n], k).conf.phase = "JOINT"

\* C11 -- In the joint phase an entry is committed only when a majority of
\* the voters of the old group and a majority of the voters of the new group
\* match it: a leader whose configuration is joint and whose commit_index
\* covers the CHANGE entry of the joint configuration has, in each group,
\* more than half of the voters at match_index >= commit_index.
C11_JointQuorum ==
    \A n \in Server :
       (/\ raft[n].state = "LEADER"
        /\ raft[n].configuration.phase = "JOINT"
        /\ JointEntryUpTo(n, raft[n].commit_index))
       => \A group \in {"OLD", "NEW"} :
             2 * Cardinality({i \in GroupVoters(n, group) :
                                 raft[n].progress[i].match_index >= raft[n].commit_index})
                > Cardinality(GroupVoters(n, group))

\* The requests of clients, well-formed or not: an id that the configuration
\* does not hold (0), the leader's own id, a role that does not exist or that
\* the server has already, a server that the configuration holds already.
AnyRequests ==
    {Request("raft_apply", 0, "NONE", 0), Request("raft_barrier", 0, "NONE", 0),
     Request("raft_dup", 0, "NONE", 0)}
    \cup {Request("raft_add", id, "NONE", 0) : id \in Server}
    \cup {Request("raft_assign", id, role, 0) :
             id \in 0..NServers, role \in {"NONE", "VOTER", "SPARE"}}
    \cup {Request("raft_joint_promote", id, role, remove) :
             id \in {0, NServers}, role \in {"VOTER", "SPARE"}, remove \in {0, 2}}
    \cup {Request("raft_remove", id, "NONE", 0) : id \in {0, 2}}
    \cup {Request("raft_transfer", id, "NONE", 0) : id \in 0..NServers}

\* The statuses of a request that is turned down before anything is appended.
Rejections ==
    {RAFT_NOTLEADER, RAFT_BADROLE, RAFT_BADID, RAFT_NOTFOUND, RAFT_DUPLICATEID}

\* C15 -- A client operation that is rejected with NOTLEADER, BADROLE, BADID,
\* NOTFOUND or DUPLICATEID leaves the node unchanged: in every reachable state
\* of every node, whatever the request, a call that returns one of these
\* statuses returns the node as it was (log, configuration, progress array,
\* change request, catch-up round, transfer and registry included) and sends
\* nothing.
C15_RejectedLeavesState ==
    \A n \in Server : \A req \in AnyRequests : \A rv \in {0, RAFT_IOERR} :
       \A c \in {Call(raft[n], req, rv, "")} :
          c.rv \in Rejections => (c.r = raft[n] /\ c.out = {})

\* A leader with a stored CHANGE entry on which requests are rejected with
\* each of BADROLE, BADID, NOTFOUND and DUPLICATEID, while a follower rejects
\* a command with NOTLEADER.
C15_Witness ==
    \E n, f \in Server :
       /\ raft[n].state = "LEADER"
       /\ raft[n].last_stored > 0
       /\ Call(raft[n], Request("raft_assign", NServers, "NONE", 0), 0, "").rv
             = RAFT_BADROLE
       /\ Call(raft[n], Request("raft_transfer", n, "NONE", 0), 0, "").rv
             = RAFT_BADID
       /\ Call(raft[n], Request("raft_joint_promote", NServers, "VOTER", 0), 0, "").rv
             = RAFT_NOTFOUND
       /\ Call(raft[n], Request("raft_add", NServers, "NONE", 0), 0, "").rv
             = RAFT_DUPLICATEID
       /\ raft[f].state = "FOLLOWER"
       /\ Call(raft[f], Request("raft_apply", 0, "NONE", 0), 0, "").rv
             = RAFT_NOTLEADER

\* ------------------------------------------------------------------ claims: leader

\* The ways a call of client.c may fail: the I/O call returns an error or one
\* allocation fails.
Failures ==
    {<<RAFT_IOERR, "">>} \cup {<<0, nomem>> : nomem \in {"log", "reg", "progress", "copy"}}

\* The pending requests of a node, each with the number of times the registry
\* holds it.
Pending(r) ==
    {<<r.reg[k], Cardinality({j \in 1..Len(r.reg) : r.reg[j] = r.reg[k]})>> :
        k \in 1..Len(r.reg)}

Durable(r) ==
    <<r.last_stored, r.commit_index, r.last_applied, r.log, r.offset,
      r.snap_index, r.snap_term, r.current_term, r.voted_for, r.snapshot_put>>

\* C13 -- Once a node is UNAVAILABLE the completion of a log write, of a
\* metadata write or of a snapshot leaves last_stored, commit_index,
\* last_applied, the log and its snapshot anchor, current_term, voted_for and
\* the snapshot bookkeeping as they are: no step other than the completion of
\* an fsm->apply changes any of them on a node that is UNAVAILABLE.
C13_UnavailableDropsResults ==
    [][\A n \in Server :
          (raft[n].state = "UNAVAILABLE" /\ raft'[n].applies = raft[n].applies)
             => Durable(raft'[n]) = Durable(raft[n])]_vars
\* The membership changes of client.c.
Changes ==
    {"raft_add", "raft_assign", "raft_remove", "raft_dup", "raft_joint_promote"}

\* C17 -- A membership change that fails after its CHANGE entry was appended
\* in memory (the progress array cannot be rebuilt, or the disk write cannot
\* be submitted) leaves the leader's last index, configuration, progress
\* array and configuration_uncommitted_index as they were: in every reachable
\* state of every node, whatever the request, a call that returns NOMEM or
\* IOERR returns these four unchanged.
C17_ChangeRolledBack ==
    \A n \in Server : \A req \in {q \in AnyRequests : q.op \in Changes} :
       \A fail \in {<<RAFT_IOERR, "">>, <<0, "progress">>} :
          \A c \in {Call(raft[n], req, fail[1], fail[2])} :
             c.rv \in {RAFT_IOERR, RAFT_NOMEM} =>
                /\ logLastIndex(c.r) = logLastIndex(raft[n])
                /\ c.r.configuration = raft[n].configuration
                /\ c.r.progress = raft[n].progress
                /\ c.r.configuration_uncommitted_index
                      = raft[n].configuration_uncommitted_index
\* C18 -- For every peer of a leader, in every reachable state,
\* match_index < next_index <= last_index + 1, where last_index is the last
\* index of the leader's log.
C18_ProgressBounds ==
    \A n \in Server : raft[n].state = "LEADER" =>
       \A i \in Server \ {n} :
          /\ raft[n].progress[i].match_index < raft[n].progress[i].next_index
          /\ raft[n].progress[i].next_index <= logLastIndex(raft[n]) + 1
\* The index of the last CHANGE entry of the log of a node, 0 when it has
\* none.
LastChange(r) ==
    LET changes == {k \in 1..Len(r.log) : r.log[k].type = "CHANGE"}
    IN  IF changes = {} THEN 0
        ELSE r.offset + CHOOSE k \in changes : \A j \in changes : j <= k

\* C20 -- In every reachable state of every node,
\* configuration_uncommitted_index is not 0 exactly when the last CHANGE entry
\* of the log is still pending: when it is not 0 the log holds a CHANGE entry
\* that has not been applied yet, and when it is 0 the log holds no CHANGE
\* entry above commit_index.
C20_UncommittedIffPending ==
    \A n \in Server :
       /\ raft[n].configuration_uncommitted_index # 0
             => LastChange(raft[n]) > raft[n].last_applied
       /\ raft[n].configuration_uncommitted_index = 0
             => LastChange(raft[n]) <= raft[n].commit_index
\* C19 -- While a node stays leader in one term and a peer stays in the
\* configuration, no step lowers the match_index the leader holds for that
\* peer.
C19_MatchIndexMonotone ==
    [][\A n \in Server : \A i \in Server \ {n} :
          (/\ raft[n].state = "LEADER"
           /\ raft'[n].state = "LEADER"
           /\ raft'[n].current_term = raft[n].current_term
           /\ configurationGet(raft[n].configuration, i)
           /\ configurationGet(raft'[n].configuration, i))
             => raft'[n].progress[i].match_index >= raft[n].progress[i].match_index]_vars
\* ------------------------------------------------------------------ claims: follower

\* The entries handed to fsm->apply and not yet done are those right after
\* last_applied, in log order, so that the next completion is that of
\* last_applied + 1.
AppliesInOrder(r) ==
    /\ \A k \in 1..Len(r.applies) : r.applies[k].index = r.last_applied + k
    /\ r.last_applied + Len(r.applies) <= r.last_applying

\* last_applied moves over the entries of the log only: it does not go back,
\* and every index it passes is that of a committed entry the node holds.
AppliedStep(r, s) ==
    /\ s.last_applied >= r.last_applied
    /\ \A j \in (r.last_applied + 1)..s.last_applied :
          /\ j - r.offset \in 1..Len(r.log)
          /\ j <= s.commit_index

\* C12 as the specification states it -- Entries are applied, and their
\* callbacks fire, strictly in log order on every node: in every step
\* last_applied moves over committed entries of the log one after the other,
\* none skipped and none twice, and the outstanding applies are the entries
\* right after last_applied.
C12_AppliedInLogOrder ==
    [][\A n \in Server :
          /\ AppliedStep(raft[n], raft'[n])
          /\ AppliesInOrder(raft'[n])]_vars

\* C12 -- Entries are applied, and their callbacks fire, strictly in log
\* order on every node, except that a follower which a catch-up message finds
\* behind the leader (sync_pgrep_index) moves its log and last_applied to the
\* prev_log_index of the message without applying the entries in between,
\* which it may do only while no apply is outstanding.
C12_AppliedInLogOrderOrSynced ==
    [][\A n \in Server :
          /\ raft'[n].offset = raft[n].offset
                => AppliedStep(raft[n], raft'[n])
          /\ raft'[n].offset # raft[n].offset
                => /\ raft[n].applies = <<>>
                   /\ raft'[n].last_applied = raft'[n].offset
                   /\ raft'[n].last_applied > raft[n].last_applied
          /\ AppliesInOrder(raft'[n])]_vars

\* A node that has applied a barrier after a command, with the apply of the
\* next command outstanding.
C12_Witness ==
    \E n \in Server :
       /\ raft[n].last_applied = 2
       /\ raft[n].offset = 0
       /\ raft[n].log[1].type = "COMMAND"
       /\ raft[n].log[2].type = "BARRIER"
       /\ Len(raft[n].applies) = 1
       /\ raft[n].applies[1].index = 3
\* C3 -- commit_index never decreases on any node: no step takes it from a
\* value to a smaller one.
C3_CommitIndexMonotone ==
    [][\A n \in Server : raft'[n].commit_index >= raft[n].commit_index]_vars

\* C4 -- In every reachable state of every node,
\* last_applied <= last_applying <= commit_index <= last_stored <= last index
\* of the log.
C4_IndexOrder ==
    \A n \in Server :
       /\ raft[n].last_applied <= raft[n].last_applying
       /\ raft[n].last_applying <= raft[n].commit_index
       /\ raft[n].commit_index <= raft[n].last_stored
       /\ raft[n].last_stored <= logLastIndex(raft[n])

\* C9 -- A follower never removes an entry at an index <= commit_index from
\* its log: in every step of a node that is a follower, every entry of its
\* log at an index up to its commit_index is still in its log afterwards.
C9_CommittedNotTruncated ==
    [][\A n \in Server :
          raft[n].state = "FOLLOWER" =>
             \A j \in (raft[n].offset + 1)..raft[n].commit_index :
                j <= logLastIndex(raft[n])
                   => /\ j > raft'[n].offset
                      /\ j <= logLastIndex(raft'[n])
                      /\ logGet(raft'[n], j) = logGet(raft[n], j)]_vars
\* ------------------------------------------------------------------ claims: progress

\* C29 -- For a peer in PIPELINE, a rejection with rejected <= match_index is
\* ignored: progressMaybeDecrement returns false and leaves the progress of
\* the peer as it is, whatever last_log_index the reply carries; any other
\* rejection sets next_index to match_index + 1, makes the state PROBE and
\* returns true.  Stated for every rejection in the network addressed to a
\* leader of its term.
C29_PipelineRejection ==
    \A n \in Server : \A m \in msgs :
       (/\ m.type = "AppendEntriesResult"
        /\ m.dst = n
        /\ m.rejected > 0
        /\ raft[n].state = "LEADER"
        /\ m.term = raft[n].current_term
        /\ raft[n].progress[m.src].state = "PIPELINE")
          => LET p == raft[n].progress[m.src]
                 d == progressMaybeDecrement(raft[n], m.src, m.rejected,
                                             m.last_log_index)
             IN  IF m.rejected <= p.match_index
                 THEN ~d.retry /\ d.p = p
                 ELSE /\ d.retry
                      /\ d.p.state = "PROBE"
                      /\ d.p.next_index = p.match_index + 1
                      /\ d.p.match_index = p.match_index

PipelinedBySuccess ==
    \A n \in Server : \A i \in Server \ {n} :
       (/\ raft[n].state = "LEADER"
        /\ raft'[n].state = "LEADER"
        /\ raft'[n].current_term = raft[n].current_term
        /\ raft[n].progress[i].state = "PROBE"
        /\ raft'[n].progress[i].state = "PIPELINE")
          => \E m \in msgs : \E in \in Inputs({0}, EnvProbe) :
                /\ m.type = "AppendEntriesResult"
                /\ m.src = i
                /\ m.dst = n
                /\ m.rejected = 0
                /\ m.term = raft[n].current_term
                /\ raft'[n] = recvCb(raft[n], m, in).r

Probes ==
    {[m EXCEPT !.prev_log_index = index, !.prev_log_term = term] :
        m \in {a \in msgs : a.type = "AppendEntries"},
        index \in 1..(MaxLog + 1), term \in 1..2}

\* What the log matching check demands of a follower n that handles request
\* m of its own term without an entry of term prev_log_term at
\* prev_log_index: a mismatch at or below commit_index makes the node
\* UNAVAILABLE and nothing is answered; otherwise the answer is a rejection
\* with rejected = prev_log_index, and the log, last_stored and commit_index
\* are left as they are.
Mismatched(n, m) ==
    \A in \in Inputs({0, RAFT_IOERR}, EnvFollower) :
       LET r == raft[n]
           res == recvCb(r, m, in)
           local_prev_term == logTermOf(r, m.prev_log_index)
       IN  (/\ m.dst = n
            /\ r.state = "FOLLOWER"
            /\ r.io_state = "AVAILABLE"
            /\ m.term = r.current_term
            /\ local_prev_term # m.prev_log_term)
              => IF local_prev_term # 0 /\ m.prev_log_index <= r.commit_index
                 THEN /\ res.r.state = "UNAVAILABLE"
                      /\ res.out = {}
                 ELSE /\ res.r.state = "FOLLOWER"
                      /\ res.r.log = r.log
                      /\ res.r.offset = r.offset
                      /\ res.r.last_stored = r.last_stored
                      /\ res.r.commit_index = r.commit_index
                      /\ res.r.appends = r.appends
                      /\ \E a \in res.out :
                            /\ res.out = {a}
                            /\ a.type = "AppendEntriesResult"
                            /\ a.dst = m.src
                            /\ a.rejected = m.prev_log_index

\* C27 as the specification states it -- A follower whose log has no entry at
\* prev_log_index, or one of another term, rejects the AppendEntries with
\* rejected = prev_log_index and leaves its log, last_stored and commit_index
\* unchanged; when the mismatch is at an index <= commit_index the node
\* becomes UNAVAILABLE instead.
C27_MismatchRejected ==
    \A n \in Server : \A m \in Probes : Mismatched(n, m)

\* C27 -- The same for every AppendEntries that is not part of a catch-up
\* round (replicationAppend makes the log matching check only when
\* pi.replicating is NML).
C27_MismatchRejectedOutsideCatchUp ==
    \A n \in Server : \A m \in Probes :
       m.replicating = "NML" => Mismatched(n, m)

\* A follower that has committed entries is sent a request outside a catch-up
\* round whose prev_log_index is beyond its log.
C27_Witness ==
    \E n \in Server : \E m \in msgs :
       /\ m.type = "AppendEntries"
       /\ m.dst = n
       /\ m.replicating = "NML"
       /\ raft[n].state = "FOLLOWER"
       /\ raft[n].io_state = "AVAILABLE"
       /\ m.term = raft[n].current_term
       /\ raft[n].commit_index > 0
       /\ m.prev_log_index > logLastIndex(raft[n])

\* ------------------------------------------------------------------ claims: leadership transfer

\* C25 as the specification states it -- raft_transfer with target id 0, on
\* a leader with no transfer in progress: whenever it returns 0 the transferee
\* it has selected is a voter other than the leader whose progress is up to
\* date (next_index = last_index + 1); when no other voter exists it returns
\* NOTFOUND, the node is left as it is and nothing is sent.
C25_TransfereeUpToDate ==
    \A n \in Server : \A rv \in {0, RAFT_IOERR} :
       (raft[n].state = "LEADER" /\ raft[n].transfer = 0)
          => LET c == raft_transfer(raft[n], 0, rv)
             IN  /\ c.rv = 0
                    => /\ c.r.transfer \in Voters(raft[n]) \ {n}
                       /\ progressIsUpToDate(raft[n], c.r.transfer)
                 /\ Voters(raft[n]) \ {n} = {}
                    => c = Returned(raft[n], RAFT_NOTFOUND)

\* C25 -- raft_transfer with target id 0, on a leader with no transfer in
\* progress: whenever it returns 0 the transferee it has selected is a voter
\* other than the leader; it is one whose progress is up to date when there
\* is one, and TimeoutNow is then sent to it at once; when no other voter is
\* up to date the call still returns 0, the transfer to the voter selected is
\* recorded and nothing is sent yet.  When no other voter exists it returns
\* NOTFOUND, the node is left as it is and nothing is sent.
C25_TransfereeUpToDateIfAny ==
    \A n \in Server : \A rv \in {0, RAFT_IOERR} :
       (raft[n].state = "LEADER" /\ raft[n].transfer = 0)
          => LET c == raft_transfer(raft[n], 0, rv)
                 others == Voters(raft[n]) \ {n}
                 ready == {i \in others : progressIsUpToDate(raft[n], i)}
             IN  /\ c.rv = 0
                    => /\ c.r.transfer \in others
                       /\ ready # {} => c.r.transfer \in ready
                       /\ IF c.r.transfer \in ready
                          THEN /\ c.r.transfer_sent
                               /\ \E t \in c.out :
                                     /\ c.out = {t}
                                     /\ t.type = "TimeoutNow"
                                     /\ t.dst = c.r.transfer
                          ELSE ~c.r.transfer_sent /\ c.out = {}
                 /\ (others # {} /\ (rv = 0 \/ ready = {})) => c.rv = 0
                 /\ others = {} => c = Returned(raft[n], RAFT_NOTFOUND)

\* A leader with no transfer in progress and two other voters, of which only
\* the second is up to date.
C25_Witness ==
    \E n \in Server :
       /\ raft[n].state = "LEADER"
       /\ raft[n].transfer = 0
       /\ \E i, j \in Voters(raft[n]) \ {n} :
             /\ i < j
             /\ ~progressIsUpToDate(raft[n], i)
             /\ progressIsUpToDate(raft[n], j)

\* ------------------------------------------------------------------ claims: term bump

\* C26 -- A message of type AppendEntries, AppendEntriesResult,
\* InstallSnapshot or TimeoutNow whose term is above current_term is not
\* handed to its handler when it is received: the node only submits the write
\* of the term, keeps the message with the request and marks its I/O busy.
\* When the write completes with success the node takes the term of the
\* message, a candidate or leader becomes follower, and the message is handed
\* to the handler of its type once: the step is that of the handler on the
\* follower of the new term, and no request is left pending.
C26_HandledAfterBump ==
    \A n \in Server : \A in \in Inputs({0}, EnvTransfer) :
       /\ \A m \in msgs :
             (/\ m.dst = n
              /\ m.type \in {"AppendEntries", "AppendEntriesResult",
                             "InstallSnapshot", "TimeoutNow"}
              /\ m.term > raft[n].current_term
              /\ raft[n].state # "UNAVAILABLE"
              /\ raft[n].io_state = "AVAILABLE")
                => LET res == recvCb(raft[n], m, in)
                   IN  /\ res.out = {}
                       /\ res.r.meta.cb = "recvBumpTermIOCb"
                       /\ res.r.meta.term = m.term
                       /\ res.r.meta.message = m
                       /\ res.r.io_state = "BUSY"
                       /\ [res.r EXCEPT !.meta = raft[n].meta,
                                        !.io_state = raft[n].io_state] = raft[n]
       /\ (raft[n].meta.cb = "recvBumpTermIOCb" /\ raft[n].state # "UNAVAILABLE")
             => LET request == raft[n].meta
                    message == request.message
                    written == [raft[n] EXCEPT !.meta = NoReq,
                                               !.io_state = "AVAILABLE",
                                               !.current_term = message.term,
                                               !.voted_for = request.voted_for]
                    follower == IF written.state = "FOLLOWER" THEN written
                                ELSE convertToFollower(written)
                    handler ==
                        IF message.type = "AppendEntries"
                        THEN recvAppendEntries(follower, message.src, message, in)
                        ELSE IF message.type = "AppendEntriesResult"
                        THEN recvAppendEntriesResult(follower, message.src, message, in)
                        ELSE recvTimeoutNow(follower, message.src, message, in.rv)
                    res == recvBumpTermIOCb(raft[n], 0, in)
                IN  /\ message.term > raft[n].current_term
                    /\ request.term = message.term
                    /\ follower.state = "FOLLOWER"
                    /\ res.out = handler.out
                    /\ res.r = IF handler.rv # 0 THEN convertToUnavailable(handler.r)
                               ELSE handler.r
                    /\ res.r.meta = NoReq

\* A leader has received a message of a higher term: the write of the term is
\* in flight and the leader has not stepped down yet.
C26_Witness ==
    \E n \in Server :
       /\ raft[n].meta.cb = "recvBumpTermIOCb"
       /\ raft[n].state = "LEADER"
       /\ raft[n].meta.message.term > raft[n].current_term

\* ------------------------------------------------------------------ claims: configuration

\* C22 -- The ids of the servers of a configuration are distinct after any
\* sequence of additions and removals (and decodings).  Adding, with a valid
\* role, an id that the configuration holds returns DUPLICATEID; adding with
\* a role that is none of the four returns BADROLE; removing an id that the
\* configuration does not hold returns BADID; each leaves the configuration
\* as it was.
C22_UniqueIds ==
    LET c == fixture.configuration
        n == Len(c.servers)
    IN  /\ \A i, j \in 1..n : c.servers[i].id = c.servers[j].id => i = j
        /\ \A id \in {1, 3, 4, 5, 258} :
            \A role_new \in {RAFT_STANDBY, RAFT_VOTER, RAFT_SPARE, RAFT_LOGGER},
               group \in {RAFT_GROUP_OLD, RAFT_GROUP_NEW, RAFT_GROUP_OLD + RAFT_GROUP_NEW} :
               /\ (\E i \in 1..n : c.servers[i].id = id)
                     => \A role \in {RAFT_STANDBY, RAFT_VOTER, RAFT_SPARE, RAFT_LOGGER} :
                           configurationAdd(c, id, role, role_new, group)
                              = [c |-> c, rv |-> RAFT_DUPLICATEID]
               /\ configurationAdd(c, id, 666, role_new, group)
                     = [c |-> c, rv |-> RAFT_BADROLE]
               /\ (\A i \in 1..n : c.servers[i].id # id)
                     => REMOVE_RV(c, id) = [c |-> c, rv |-> RAFT_BADID]
        /\ (fixture.op \in {"ADD", "REMOVE"} /\ fixture.rv # 0)
              => fixture.rv \in {RAFT_DUPLICATEID, RAFT_BADROLE, RAFT_BADID}

\* An addition has been refused for its id, which the configuration holds.
C22_Witness ==
    /\ fixture.op = "ADD"
    /\ fixture.rv = RAFT_DUPLICATEID
    /\ Len(fixture.configuration.servers) >= 1

\* C23 -- Decoding the encoding of a configuration succeeds and yields the
\* configuration: the same servers with their ids, roles, new roles and
\* groups, and the same phase, NORMAL or JOINT.
C23_RoundTrip ==
    configurationDecode(configurationEncode(fixture.configuration))
       = [c |-> fixture.configuration, rv |-> 0]

\* The encoding of a joint configuration of two servers, one of them with a
\* new role other than its role and an id longer than a byte, has been
\* decoded.
C23_Witness ==
    /\ fixture.op = "DECODE"
    /\ fixture.rv = 0
    /\ fixture.configuration.phase = RAFT_CONF_JOINT
    /\ Len(fixture.configuration.servers) = 2
    /\ \E i \in 1..2 : /\ fixture.configuration.servers[i].id = 258
                       /\ fixture.configuration.servers[i].role_new
                             # fixture.configuration.servers[i].role
                       /\ fixture.configuration.servers[i].group # RAFT_GROUP_OLD
    /\ fixture.buf = configurationEncode(fixture.configuration)

\* C24 -- Decoding the short form of a configuration (version, n, n pairs of
\* id and role, no meta block; padded or not) succeeds and yields the phase
\* NORMAL and, for every server, its id and role, its role as new role and
\* the group OLD; so it is for the short buffers of test_configuration.c.
\* A buffer whose version byte is not 1 is rejected with MALFORMED.
C24_ShortForm ==
    LET c == fixture.configuration
        n == Len(c.servers)
        buf == configurationEncode(c)
        old(s) == [id |-> s.id, role |-> s.role, role_new |-> s.role,
                   group |-> RAFT_GROUP_OLD]
    IN  /\ \A short \in ShortForms(buf) :
              configurationDecode(short)
                 = [c |-> [servers |-> [i \in 1..n |-> old(c.servers[i])],
                           phase |-> RAFT_CONF_NORMAL],
                    rv |-> 0]
        /\ \A bad \in BadVersions(buf) \cup UNION {BadVersions(b) : b \in ShortForms(buf)}
                      \cup {<<127>>} :
              configurationDecode(bad).rv = RAFT_MALFORMED
        /\ (fixture.op = "DECODE" /\ Len(fixture.buf) < CONF_META_SIZE)
              => IF fixture.buf[1] # 1 THEN fixture.rv = RAFT_MALFORMED
                 ELSE /\ fixture.rv = 0
                      /\ c.phase = RAFT_CONF_NORMAL
                      /\ n = byteGet(fixture.buf, 2, 8)
                      /\ \A i \in 1..n : /\ c.servers[i].role_new = c.servers[i].role
                                         /\ c.servers[i].group = RAFT_GROUP_OLD
        /\ configurationDecode(<<1, 2, 0, 0, 0, 0, 0, 0, 0, 5, 0, 0, 0, 0, 0, 0, 0, 1,
                                  3, 0, 0, 0, 0, 0, 0, 0, 2>>)
              = [c |-> [servers |-> <<old([id |-> 3, role |-> RAFT_SPARE]),
                                      old([id |-> 5, role |-> RAFT_VOTER])>>,
                        phase |-> RAFT_CONF_NORMAL],
                 rv |-> 0]

\* The padded short form of a configuration of two servers, one of them with
\* an id longer than a byte, has been decoded.
C24_Witness ==
    /\ fixture.op = "DECODE"
    /\ fixture.rv = 0
    /\ Len(fixture.buf) = 32
    /\ Len(fixture.configuration.servers) = 2
    /\ \E i \in 1..2 : fixture.configuration.servers[i].id = 258

\* ------------------------------------------------------------------ claims: liveness

\* C21 -- When a majority of the voters exchange messages and timers,
\* deliveries and I/O completions are fair, some node eventually is LEADER,
\* and whenever a leader holds an entry at an index, the commit_index of that
\* node eventually reaches the index.
C21_Liveness ==
    /\ <>(\E n \in Server : raft[n].state = "LEADER")
    /\ \A n \in Server : \A i \in 1..MaxLog :
          (raft[n].state = "LEADER" /\ logLastIndex(raft[n]) >= i)
             ~> (raft[n].commit_index >= i)

\* A leader has committed every entry the clients had it append.
C21_Witness ==
    \E n \in Server :
       /\ raft[n].state = "LEADER"
       /\ logLastIndex(raft[n]) = MaxLog
       /\ raft[n].commit_index = MaxLog

\* ------------------------------------------------------------------ claims: progress

\* C31: for a peer in PIPELINE the result of progressShouldReplicate is true
\* exactly when a heartbeat is due, or the peer is not up to date
\* (next_index # last_index + 1) and the window allows it:
\* inflight_log_threshold = 0 or next_index - match_index - 1, as an integer,
\* is below inflight_log_threshold.
C31_PipelineReplicates ==
    LET r == raft[1]
        p == r.progress[2]
    IN  (fixture.op = "progressShouldReplicate" /\ p.state = "PIPELINE")
           => ((fixture.rv = 1) <=>
                  \/ p.needs_heartbeat
                  \/ /\ p.next_index # logLastIndex(r) + 1
                     /\ \/ r.inflight_log_threshold = 0
                        \/ p.next_index - p.match_index - 1 < r.inflight_log_threshold)

\* The function was called for a PIPELINE peer with a cap, nothing in flight
\* beyond match_index and no heartbeat due, and it answered true.
C31_Witness ==
    LET r == raft[1]
        p == r.progress[2]
    IN  /\ fixture.op = "progressShouldReplicate"
        /\ fixture.rv = 1
        /\ p.state = "PIPELINE"
        /\ ~p.needs_heartbeat
        /\ r.inflight_log_threshold > 0
        /\ p.next_index <= p.match_index

\* ------------------------------------------------------------------ claims: disruption protection

\* C32 -- A node with a live leader (a leader, or a follower that knows a
\* leader and has heard from it within election_timeout) answers a
\* RequestVote without disrupt_leader with vote_granted = FALSE, keeps
\* current_term and voted_for and submits no write, even for a higher term; a
\* node without a live leader (a follower that has not heard from its leader
\* for more than election_timeout included), or one that is asked with
\* disrupt_leader, handles the request as it handles one that carries
\* disrupt_leader.  `elapsed` is what the clock tells when the request
\* arrives: whether now - election_timer_start exceeds election_timeout; the
\* tick makes a follower a candidate only later, after election_timeout plus
\* its random part.
C32_DisruptionProtection ==
    \A n \in Server : \A m \in msgs : \A elapsed \in BOOLEAN :
       (/\ m.type = "RequestVote"
        /\ m.dst = n
        /\ raft[n].state # "UNAVAILABLE"
        /\ raft[n].io_state = "AVAILABLE")
       => LET r == raft[n]
              live == \/ r.state = "LEADER"
                      \/ r.state = "FOLLOWER" /\ r.current_leader # 0 /\ ~elapsed
              res == recvRequestVote(r, m.src, m, 0)
          IN  IF live /\ ~m.disrupt_leader
              THEN /\ res.r = r
                   /\ \A reply \in res.out : ~reply.vote_granted
                   /\ res.out # {}
              ELSE res = recvRequestVote(r, m.src,
                                         [m EXCEPT !.disrupt_leader = TRUE], 0)

\* ------------------------------------------------------------------ claims: pre-vote

\* C33 -- Pre-vote persists nothing: a node that handles a RequestVote with
\* pre_vote = TRUE keeps current_term and voted_for and submits no metadata
\* write; a candidate in its pre-vote phase that handles any
\* RequestVoteResult submits no metadata write, and keeps current_term
\* unless the result completes the pre-vote quorum.
C33_PreVotePersistsNothing ==
    \A n \in Server : \A m \in msgs :
       (m.dst = n /\ raft[n].state # "UNAVAILABLE" /\ raft[n].io_state = "AVAILABLE")
       => LET r == raft[n]
              res == recvCb(r, m, [rv |-> 0, garbage |-> 0, snap_rv |-> 0,
                                   grant |-> TRUE])
          IN  /\ (m.type = "RequestVote" /\ m.pre_vote)
                    => /\ res.r.current_term = r.current_term
                       /\ res.r.voted_for = r.voted_for
                       /\ res.r.meta = NoReq
                       /\ res.r.io_state = "AVAILABLE"
              /\ (m.type = "RequestVoteResult" /\ r.state = "CANDIDATE"
                                               /\ r.in_pre_vote)
                    => /\ res.r.meta = NoReq
                       /\ res.r.io_state = "AVAILABLE"
                       /\ res.r.in_pre_vote
                             => res.r.current_term = r.current_term

\* C33, amended -- as above, except that a candidate in its pre-vote phase
\* that handles a result whose term is above current_term + 1 submits the
\* metadata write of that term with no vote (and steps down when the write
\* completes); current_term itself is not changed by the handler.
C33_PreVotePersistsNothingUnlessAhead ==
    \A n \in Server : \A m \in msgs :
       (m.dst = n /\ raft[n].state # "UNAVAILABLE" /\ raft[n].io_state = "AVAILABLE")
       => LET r == raft[n]
              res == recvCb(r, m, [rv |-> 0, garbage |-> 0, snap_rv |-> 0,
                                   grant |-> TRUE])
          IN  /\ (m.type = "RequestVote" /\ m.pre_vote)
                    => /\ res.r.current_term = r.current_term
                       /\ res.r.voted_for = r.voted_for
                       /\ res.r.meta = NoReq
                       /\ res.r.io_state = "AVAILABLE"
              /\ (m.type = "RequestVoteResult" /\ r.state = "CANDIDATE"
                                               /\ r.in_pre_vote)
                    => IF m.src \in Voters(r) /\ m.term > r.current_term + 1
                       THEN /\ res.r.meta.term = m.term
                            /\ res.r.meta.voted_for = 0
                            /\ res.r.io_state = "BUSY"
                            /\ res.r.current_term = r.current_term
                       ELSE /\ res.r.meta = NoReq
                            /\ res.r.io_state = "AVAILABLE"
                            /\ res.r.in_pre_vote
                                  => res.r.current_term = r.current_term

\* A candidate in its pre-vote phase has a granted pre-vote result to handle
\* while the voter that sent it, asked with pre_vote = TRUE for a term above
\* its own, has kept its term and has no vote.
C33_Witness ==
    \E n \in Server : \E m \in msgs :
       /\ m.type = "RequestVoteResult"
       /\ m.dst = n
       /\ m.pre_vote
       /\ m.vote_granted
       /\ raft[n].state = "CANDIDATE"
       /\ raft[n].in_pre_vote
       /\ raft[n].io_state = "AVAILABLE"
       /\ raft[m.src].current_term = raft[n].current_term
       /\ raft[m.src].voted_for = 0
       /\ raft[m.src].meta = NoReq

\* ------------------------------------------------------------------ claims: no_op

\* C34 -- With no_op, the step in which a candidate becomes leader appends
\* exactly one entry, a BARRIER of the new leader's term; and a leader is
\* readable only when that entry, the first of its term in its log, is
\* committed: readable is never true on a leader whose commit_index is below
\* the first entry of its term or whose first entry of its term is not a
\* BARRIER, and it becomes true only in a step of a node that is leader
\* before and after.
C34_NoOpBarrier ==
    [][\A n \in Server :
          LET r == raft[n]
              q == raft'[n]
          IN  /\ (r.state = "CANDIDATE" /\ q.state = "LEADER")
                    => /\ q.offset = r.offset
                       /\ q.log = Append(r.log, q.log[Len(q.log)])
                       /\ q.log[Len(q.log)].type = "BARRIER"
                       /\ q.log[Len(q.log)].term = q.current_term
                       /\ ~q.readable
              /\ (q.state = "LEADER" /\ q.readable)
                    => /\ r.state = "LEADER"
                       /\ r.current_term = q.current_term
                       /\ \E i \in (q.offset + 1)..q.commit_index :
                             /\ logGet(q, i).type = "BARRIER"
                             /\ logGet(q, i).term = q.current_term
                             /\ logTermOf(q, i - 1) < q.current_term]_vars

\* A leader has become readable: the barrier of its election is committed,
\* and a request of a client is in its log behind it.
C34_Witness ==
    \E n \in Server :
       /\ raft[n].state = "LEADER"
       /\ raft[n].readable
       /\ raft[n].no_op
       /\ Len(raft[n].log) = 2
       /\ raft[n].log[1].type = "BARRIER"
       /\ raft[n].commit_index >= 1
\* ------------------------------------------------------------------ claims: removed leader

\* C35 -- A leader that applies a committed CHANGE entry whose configuration
\* does not hold the leader is a FOLLOWER and marked removed after that same
\* step, with its change request given up; and a leader whose log holds a
\* CHANGE entry without the leader that is not applied yet turns raft_apply
\* down with RAFT_NOTLEADER.
C35_RemovedLeader ==
    [][\A n \in Server : raft[n].state = "LEADER" =>
          /\ \A k \in 1..Len(raft[n].log) :
                (/\ raft[n].log[k].type = "CHANGE"
                 /\ ~configurationGet(raft[n].log[k].conf, n)
                 /\ raft[n].offset + k > raft[n].last_applied)
                => /\ raft_apply(raft[n], 0, "").rv = RAFT_NOTLEADER
                   /\ raft'[n].last_applied >= raft[n].offset + k
                         => /\ raft'[n].state = "FOLLOWER"
                            /\ raft'[n].removed
                            /\ ~raft'[n].change]_vars
\* ------------------------------------------------------------------ claims: truncation

\* C36 -- No step removes or replaces an entry of a node's log that a disk
\* write still in flight after the step refers to; and try_truncate from an
\* index at or below which such an entry lies returns RAFT_LOG_BUSY and
\* leaves the log as it is.
C36_TruncateBusy ==
    [][\A n \in Server :
          /\ \A k \in 1..Len(raft[n].appends) :
                (\E j \in 1..Len(raft'[n].appends) :
                    raft'[n].appends[j] = raft[n].appends[k])
                => \A index \in raft[n].appends[k].index ..
                                 (raft[n].appends[k].index
                                     + Len(raft[n].appends[k].entries) - 1) :
                      (/\ index > raft[n].offset
                       /\ index <= logLastIndex(raft[n])
                       /\ index > raft'[n].offset)
                      => /\ index <= logLastIndex(raft'[n])
                         /\ logGet(raft'[n], index) = logGet(raft[n], index)
          /\ \A index \in (raft[n].offset + 1)..logLastIndex(raft[n]) :
                isRefs(raft[n], index)
                => \A garbage \in {0, RAFT_IOERR} :
                      /\ try_truncate(raft[n], index, garbage).rv = RAFT_LOG_BUSY
                      /\ try_truncate(raft[n], index, garbage).r.log = raft[n].log]_vars
\* ------------------------------------------------------------------ claims: vote results

\* The results of a vote that the network may hand to node n from server id:
\* a granted vote of the term below the node's, of its term or of the term
\* above, flagged pre_vote or not.
VoteResults(n, id) ==
    {[type |-> "RequestVoteResult", src |-> id, dst |-> n, term |-> term,
      vote_granted |-> TRUE, pre_vote |-> pre_vote] :
        term \in {t \in (raft[n].current_term - 1)..(raft[n].current_term + 1) : t >= 0},
        pre_vote \in BOOLEAN}

\* C37 -- recvRequestVoteResult, handed a granted vote, leaves the node as it
\* is (vote tally, role and current_term included) and sends nothing when the
\* receiver is not a candidate, when the sender is not a voter of the
\* receiver's configuration, and when the receiver is a candidate in the real
\* voting phase and the result is flagged pre_vote or is of a term below
\* current_term.
C37_ResultIgnored ==
    \A n \in Server : \A id \in 1..(NServers + 1) : \A result \in VoteResults(n, id) :
       (\/ raft[n].state # "CANDIDATE"
        \/ id \notin Voters(raft[n])
        \/ /\ ~raft[n].in_pre_vote
           /\ result.pre_vote \/ result.term < raft[n].current_term)
       => \A res \in {recvRequestVoteResult(raft[n], id, result,
                          [rv |-> 0, garbage |-> 0, snap_rv |-> 0, grant |-> TRUE])} :
             /\ res.r = raft[n]
             /\ res.out = {}
             /\ res.rv = 0

\* A candidate in the real voting phase to which a granted result flagged
\* pre_vote is on its way, and a leader to which a granted result of its
\* election is still on its way.
C37_Witness ==
    /\ \E m \in msgs :
          /\ m.type = "RequestVoteResult" /\ m.pre_vote /\ m.vote_granted
          /\ raft[m.dst].state = "CANDIDATE" /\ ~raft[m.dst].in_pre_vote
          /\ m.term = raft[m.dst].current_term
    /\ \E m \in msgs :
          /\ m.type = "RequestVoteResult" /\ ~m.pre_vote /\ m.vote_granted
          /\ raft[m.dst].state = "LEADER"
\* C38 -- A candidate in its pre-vote phase that receives a granted result
\* of a real vote (pre_vote = false) does not count it: its vote tally, its
\* phase and its term stay as they are.
C38_PreVoteTally ==
    \A m \in msgs :
       (/\ m.type = "RequestVoteResult" /\ m.vote_granted /\ ~m.pre_vote
        /\ raft[m.dst].state = "CANDIDATE" /\ raft[m.dst].in_pre_vote
        /\ raft[m.dst].io_state = "AVAILABLE")
       => \A res \in {recvCb(raft[m.dst], m,
                          [rv |-> 0, garbage |-> 0, snap_rv |-> 0, grant |-> TRUE])} :
             /\ res.r.votes = raft[m.dst].votes
             /\ res.r.in_pre_vote
             /\ res.r.current_term = raft[m.dst].current_term
\* ---- claims: snapshots

\* C39: at most one snapshot write is in flight per node, and takeSnapshot
\* starts (it submits a write, or its io->snapshot_put fails) only when
\* snapshot.put is free, which is what its assertion states.
C39_OneSnapshotPut ==
    [][\A n \in Server :
          /\ raft'[n].snapshot_puts <= 1
          /\ (\/ raft'[n].snapshot_puts > raft[n].snapshot_puts
              \/ raft[n].snapshot_fault /\ ~raft'[n].snapshot_fault)
             => ~raft[n].snapshot_put]_vars

\* ---- claims: pending membership change

\* C40: leader_state.change is set only while a membership change is pending:
\* a catch-up round is running or a CHANGE entry of the log is not committed
\* yet; so it is not set after a membership request has returned an error.
C40_ChangeOnlyWhilePending ==
    \A n \in Server :
       (raft[n].state = "LEADER" /\ raft[n].change)
       => \/ raft[n].promotee_id # 0
          \/ \E k \in 1..Len(raft[n].log) :
                /\ raft[n].log[k].type = "CHANGE"
                /\ raft[n].offset + k > raft[n].commit_index

====
